---- MODULE Spec2Model ----
(***************************************************************************)
(* gosh: the store engine (Store, part_008), its net/rpc transport with    *)
(* file descriptor passing (store_rpc.go) and the web handlers that use    *)
(* them (webserver.go), the upload form (item.go) and the processes        *)
(* (mainMonitor, mainStore, mainWebserver).                                *)
(*                                                                         *)
(* Spec     the Store used directly by concurrent callers, with the        *)
(*          background sweeper and the clock.                              *)
(* SpecRpc  the webserver's request handlers calling the Store through     *)
(*          StoreRpcClient / StoreRpcServer, with the same Store steps.    *)
(* SpecServe  the fetch and deletion handlers on a store that holds one    *)
(*          Item, burn-after-reading or not, through the same RPC layer.   *)
(* SpecPut  one upload through StoreRpcClient.Put, with the client's       *)
(*          goroutines scheduled fairly and a store that may stall.        *)
(* SpecCond conditional GETs (If-Modified-Since) of one stored Item.       *)
(* SpecUpload  one upload request with any form: size, Content-Type and    *)
(*          time field, through handleUpload and Put.                      *)
(* SpecFd   concurrent fetches of two stored Items.                        *)
(* SpecPair two concurrent uploads.                                        *)
(* SpecProc the supervisor and the start, sandbox and end of its children. *)
(* SpecCrash  Spec with a store process that is killed and started again.  *)
(* SpecReuse  deletion requests for one Item and an upload that can take   *)
(*          its id.                                                        *)
(* SpecClose  Spec with Store.Close and the end of the sweeper.             *)
(* SpecFull Spec on a store that holds an Item under every id.             *)
(* SpecWire the store's end of the FD socket with any message on it.       *)
(***************************************************************************)
EXTENDS Integers, Sequences, FiniteSets, TLC

\* ------------------------------------------------------------------ bounds
NumIds == 2
NumBodies == 2
BodyLen == 2
MaxTime == 1
MaxLifetime == 1
NumSlots == 2
NumHandlers == 2
MaxCalls == 2
MaxRequests == 2
MaxUploads == 1
MaxTimeouts == 1
PipeCap == 1
KeyLen == 2

\* ------------------------------------------------------- program constants
\* createID tries this many candidates.
MaxAttempts == 32

\* const producers = 3; errChan := make(chan error, producers)
producers == 3

\* NewStore("/", idGenerator, true): the store child always runs with
\* autoCleanup switched on.
cleanup == TRUE

Ids == 1..NumIds
Bodies == 1..NumBodies
Slots == 1..NumSlots
Handlers == 1..NumHandlers
Times == 0..MaxTime

\* Keys are strings of KeyLen machine words over two values. Every Item gets
\* the same deletion key.
Keys == [1..KeyLen -> {0, 1}]
DeletionKey == [i \in 1..KeyLen |-> 1]

\* Body b is Size(b) chunks long: the bodies differ in length as well.
Size(b) == IF b < BodyLen THEN b ELSE BodyLen

\* One open-file object (inode) per directory entry and per descriptor that
\* can be held at once; one pipe per Put that can be in progress.
NumInodes == NumIds + NumSlots + NumHandlers
Inodes == 1..NumInodes
NumPipes == NumSlots + NumHandlers
Pipes == 1..NumPipes

\* The zero Item; "" as an id is 0.
\* The time field of an upload form that is empty, and one that is no
\* duration string; a form without a file.
NoField == [n |-> -1, unit |-> ""]
BadField == [n |-> -1, unit |-> "?"]
NoReq == [size |-> 0, mime |-> "", time |-> NoField]

\* http.ParseTime(r.Header.Get("If-Modified-Since")) failed.
NoIms == -1

NoItem == [ID |-> 0, Created |-> 0, Expires |-> 0, Burn |-> FALSE, Key |-> <<>>]
EmptyFile == [body |-> 0, len |-> 0]
NoPipe == [body |-> 0, wr |-> 0, rd |-> 0, wclosed |-> FALSE]

\* The descriptor that opening the storage directory itself yields; reading
\* from it fails.
StorageDir == NumInodes + 1

\* History record of an upload: the Item and body handed to the client Put and
\* the number of the request that made it.
NoRec == [m |-> NoItem, body |-> 0, seq |-> 0]

VARIABLES
  now,      \* time.Now()
  index,    \* the badgerhold database: id -> Item
  dir,      \* the storage directory: id -> inode of the blob, 0 if no file
  inode,    \* content of every inode
  pipe,     \* the pipes (and readers) that carry upload bodies
  g,        \* Store method invocations in progress, one goroutine per slot
  sw,       \* the cleanupExired goroutine
  h,        \* the webserver's request handlers
  owner,    \* per slot: the handler whose rpc call waits for its reply, or 0
  fdSrv,    \* FD socket, webserver -> store: messages with pipe read ends
  fdCli,    \* FD socket, store -> webserver: messages with blob descriptors
  deleted,  \* history: ids whose Delete returned nil and that no Put wrote since
  liveRet,  \* history: ids returned by a successful Put whose entry was not removed since
  everRet,  \* history: ids that a successful Put has returned
  stored,   \* history: per id, what the client Put that returned it stored, from
            \* its return and while the Item is neither removed nor expired
  calls,    \* number of Store methods called directly so far
  reqs,     \* number of HTTP requests accepted so far
  uploads,  \* number of uploads among them
  timeouts, \* number of rpc calls that ran into their timeout so far
  proc      \* the processes: supervisor, store child and webserver child

storeVars == <<now, index, dir, inode, pipe, g, sw>>
rpcVars == <<h, owner, fdSrv, fdCli>>
histVars == <<deleted, liveRet, everRet, stored>>
countVars == <<calls, reqs, uploads, timeouts>>
vars == <<storeVars, rpcVars, histVars, countVars, proc>>

\* A goroutine slot of the store process.
\*   op, pc      the method and the statement it is at
\*   id, item    its argument and the Item it works on
\*   f, src      the blob descriptor and the body source it holds
\*   err         what it returns
\*   lazy        Get is deleting an expired Item
\*   fresh, mine history flags, see PutWrote and EntryRemoved
Idle == [op |-> "none", pc |-> "idle", id |-> 0, item |-> NoItem, f |-> 0,
         src |-> 0, err |-> "nil", lazy |-> FALSE, fresh |-> FALSE, mine |-> FALSE]

\* StoreRpcClient.Put's goroutines.
\*   copy   "run" | "last" (the copy failed and its error is sent, the final
\*          nil still to send) | "done"
\*   send, call   "todo" | "wait" | "done"
\*   ch     errChan;  main  "select" | "collect" (after its timeout) | "none"
\*   got    values read from errChan
\*   bad    errs is not empty;  itemId  the reply of the Put call
\*   p      the pipe;  copyOk, sendOk, callOk  history: the task succeeded
NoPut == [copy |-> "done", send |-> "done", call |-> "done", ch |-> <<>>,
          main |-> "none", got |-> 0, bad |-> FALSE, itemId |-> 0, p |-> 0,
          copyOk |-> FALSE, sendOk |-> FALSE, callOk |-> FALSE]

\* Errors as the webserver sees them: nil, a sentinel of its own process, or
\* the rpc.ServerError that carries the message of the store's error.
NilErr == [type |-> "nil", msg |-> ""]
ErrNotFound == [type |-> "errors", msg |-> "ErrNotFound"]
ErrOther(m) == [type |-> "errors", msg |-> m]
ServerError(e) == IF e = "nil" THEN NilErr ELSE [type |-> "rpc.ServerError", msg |-> e]

\* A request handler of the webserver.
\*   kind, pc    the request and where its handler is
\*   id, item    the requested id / the Item (uploaded, or returned by Get)
\*   body        the uploaded body;  seq  the number of the request
\*   err         the error of the client method that returned last
\*   timedOut    history: that method's call ran into the timeout
\*   fd          the descriptor received;  served  what was streamed
\*   servedAt    time of streaming;  resp  the HTTP status sent
\*   complete    the stream went through to its end
\*   key, work   the key of a deletion request; the words its check compared
\*   want        history: what was stored under id when the request came
\*   had         history: the index entry of id when the request came
\*   burnt       history: when the request came, a fetch of id had ended that
\*               answered 200 with the whole body of a burn-after-reading Item
\*   ims         the time of the request's If-Modified-Since header, or NoIms
\*   req         the form of an upload
NoHandler == [kind |-> "none", pc |-> "idle", id |-> 0, item |-> NoItem, body |-> 0,
              seq |-> 0, err |-> NilErr, timedOut |-> FALSE, fd |-> 0,
              served |-> EmptyFile, servedAt |-> 0, resp |-> 0, put |-> NoPut,
              complete |-> FALSE, key |-> <<>>, work |-> 0,
              want |-> NoRec, had |-> NoItem, burnt |-> FALSE, ims |-> NoIms,
              req |-> NoReq]

\* --------------------------------------------------------------- helpers
Min(S) == CHOOSE x \in S : \A y \in S : x <= y

Range(q) == {q[i] : i \in DOMAIN q}

\* i.Expires.Before(time.Now())
Expired(item, t) == item.Expires < t

\* ------------------------------------------------------------ the FD socket
\* A message on the FD socket is its ancillary data: a sequence of control
\* messages, each a sequence of descriptors.

\* sendFd: unix.UnixRights(fd), one control message with one descriptor.
UnixRights(fd) == <<<<fd>>>>

\* recvFd: unix.ParseSocketControlMessage and len(cmsgs) != 1, then
\* unix.ParseUnixRights(&cmsgs[0]) and len(fds) != 1.
recvFd(msg) ==
  IF Len(msg) # 1 THEN [fd |-> 0, err |-> "wrongLength"]
  ELSE IF Len(msg[1]) # 1 THEN [fd |-> 0, err |-> "wrongLength"]
  ELSE [fd |-> msg[1][1], err |-> "nil"]

\* The descriptors in the messages of a socket queue.
FdsIn(q) == UNION {UNION {Range(q[i][j]) : j \in DOMAIN q[i]} : i \in DOMAIN q}

\* The inodes and pipes that the given directory, goroutines, handlers and
\* socket queues refer to.
InodesOf(d, gg, hh, q) ==
  {d[i] : i \in Ids} \cup {gg[s].f : s \in Slots} \cup {hh[k].fd : k \in Handlers}
    \cup FdsIn(q)

PipesOf(gg, hh, q) ==
  {gg[s].src : s \in Slots} \cup {hh[k].put.p : k \in Handlers} \cup FdsIn(q)

FreeInode == Min(Inodes \ InodesOf(dir, g, h, fdCli))

FreePipe == Min(Pipes \ PipesOf(g, h, fdSrv))

\* Inodes and pipes nobody refers to any more are gone.
GcInodes(in, d, gg, hh, q) ==
  [n \in Inodes |-> IF n \in InodesOf(d, gg, hh, q) THEN in[n] ELSE EmptyFile]

GcPipes(pp, gg, hh, q) ==
  [p \in Pipes |-> IF p \in PipesOf(gg, hh, q) THEN pp[p] ELSE NoPipe]

\* Goroutines are interchangeable: a new invocation takes the first idle slot.
IdleSlots == {s \in Slots : g[s].pc = "idle"}

IsFirstIdle(s) == IdleSlots # {} /\ s = Min(IdleSlots)

\* The ids the index holds an Item for.
Indexed == {i \in Ids : index[i] # NoItem}

\* ------------------------------------------------------------ Store.createID
\* The candidates idGenerator can produce are all of Ids; a candidate that the
\* index already holds is skipped, and after MaxAttempts skipped candidates
\* createID gives up (result 0).
RECURSIVE createIDFrom(_, _)
createIDFrom(i, taken) ==
  IF i = MaxAttempts THEN {0}
  ELSE LET rest == createIDFrom(i + 1, taken)
       IN  (Ids \ taken) \cup (IF taken # {} THEN rest ELSE {})

\* A createID that takes its candidate without looking into the index.
createIDUnchecked == Ids

createID == createIDFrom(0, Indexed)

\* ------------------------------------------------- history bookkeeping only
\* The index entry of id was removed: a Put that inserted it no longer owns it.
EntryRemoved(gg, id) ==
  [t \in Slots |-> IF gg[t].op = "Put" /\ gg[t].id = id
                   THEN [gg[t] EXCEPT !.mine = FALSE] ELSE gg[t]]

\* A Put wrote the index entry or the blob of id: a Delete of id that is under
\* way no longer leaves id absent.
PutWrote(gg, id) ==
  [t \in Slots |-> IF gg[t].pc = "del_file" /\ gg[t].id = id
                   THEN [gg[t] EXCEPT !.fresh = FALSE] ELSE gg[t]]

SwPutWrote(id) ==
  IF sw.pc = "del_file" /\ Head(sw.items) = id
  THEN [sw EXCEPT !.fresh = FALSE] ELSE sw

\* ------------------------------------------------------------------ Store
\* The two statements of Store.Delete, as used by Delete itself, by the lazy
\* deletion in Get and by deleteExpired.

\* s.bh.Delete(&id, Item{}): badgerhold reports a missing key as ErrNotFound.
\* No Item has the empty id (0).
bhDelete(id) ==
  IF id = 0 \/ index[id] = NoItem THEN "bhNotFound" ELSE "nil"

\* os.Remove(<storage>/<id>)
osRemove(id) ==
  IF dir[id] = 0 THEN "ENOENT" ELSE "nil"

\* Store.Get, first statement: s.bh.Get(id, &i), then the expiry test.
Get(s) ==
  /\ g[s].op = "Get" /\ g[s].pc = "get"
  /\ LET i == index[g[s].id] IN
       g' = [g EXCEPT ![s] =
               IF i = NoItem
               THEN [@ EXCEPT !.pc = "ret", !.err = "ErrNotFound"]
               ELSE IF cleanup /\ Expired(i, now)
               THEN [@ EXCEPT !.pc = "del_idx", !.item = i, !.id = i.ID, !.lazy = TRUE]
               ELSE [@ EXCEPT !.pc = "ret", !.item = i]]
  /\ UNCHANGED <<now, index, dir, inode, pipe, sw, deleted, liveRet, everRet, stored, rpcVars, countVars, proc>>

\* Store.Delete, first statement (also the Delete that Get calls).
DeleteIndex(s) ==
  /\ g[s].pc = "del_idx"
  /\ LET id == g[s].id IN
       IF bhDelete(id) # "nil"
       THEN /\ g' = [g EXCEPT ![s].pc = "ret", ![s].err = bhDelete(id)]
            /\ UNCHANGED <<index, liveRet, stored>>
       ELSE /\ index' = [index EXCEPT ![id] = NoItem]
            /\ g' = [EntryRemoved(g, id) EXCEPT ![s].pc = "del_file", ![s].fresh = TRUE]
            /\ liveRet' = liveRet \ {id}
            /\ stored' = [stored EXCEPT ![id] = NoRec]
  /\ UNCHANGED <<now, dir, inode, pipe, sw, deleted, everRet, rpcVars, countVars, proc>>

\* A variant for comparison: a Delete whose second statement reports success
\* but leaves the blob in place.
DeleteFileLeavesBlob(s) ==
  /\ g[s].pc = "del_file"
  /\ g' = [g EXCEPT ![s].pc = "ret",
                    ![s].err = IF g[s].lazy THEN "ErrNotFound" ELSE "nil"]
  /\ deleted' = IF g[s].fresh THEN deleted \cup {g[s].id} ELSE deleted
  /\ UNCHANGED <<now, index, dir, inode, pipe, sw, liveRet, everRet, stored, rpcVars, countVars, proc>>

\* Store.Delete, second statement, and the return.
DeleteFile(s) ==
  /\ g[s].pc = "del_file"
  /\ LET id == g[s].id IN
       IF osRemove(id) # "nil"
       THEN /\ g' = [g EXCEPT ![s].pc = "ret", ![s].err = osRemove(id)]
            /\ UNCHANGED <<dir, inode, deleted>>
       ELSE /\ dir' = [dir EXCEPT ![id] = 0]
            /\ g' = [g EXCEPT ![s].pc = "ret",
                              ![s].err = IF g[s].lazy THEN "ErrNotFound" ELSE "nil"]
            /\ deleted' = IF g[s].fresh THEN deleted \cup {id} ELSE deleted
            /\ inode' = GcInodes(inode, dir', g', h, fdCli)
  /\ UNCHANGED <<now, index, pipe, sw, liveRet, everRet, stored, rpcVars, countVars, proc>>

\* Store.GetFile: os.Open(<storage>/<id>). With the empty id the path is the
\* storage directory itself, which opens.
GetFile(s) ==
  /\ g[s].op = "GetFile" /\ g[s].pc = "open"
  /\ g' = [g EXCEPT ![s] =
             IF g[s].id = 0
             THEN [@ EXCEPT !.pc = "ret", !.f = StorageDir]
             ELSE IF dir[g[s].id] = 0
             THEN [@ EXCEPT !.pc = "ret", !.err = "ENOENT"]
             ELSE [@ EXCEPT !.pc = "ret", !.f = dir[g[s].id]]]
  /\ UNCHANGED <<now, index, dir, inode, pipe, sw, deleted, liveRet, everRet, stored, rpcVars, countVars, proc>>

\* Store.Put: id, err = s.createID()
PutCreateID(s) ==
  /\ g[s].op = "Put" /\ g[s].pc = "createID"
  /\ \E r \in createID :
       g' = [g EXCEPT ![s] =
               IF r = 0 THEN [@ EXCEPT !.pc = "ret", !.err = "noFreeID"]
               ELSE [@ EXCEPT !.pc = "insert", !.id = r, !.item = [@ EXCEPT !.ID = r]]]
  /\ UNCHANGED <<now, index, dir, inode, pipe, sw, deleted, liveRet, everRet, stored, rpcVars, countVars, proc>>

\* A variant for comparison: an Insert without the test for an existing key
\* (an upsert).
bhInsertAnyway(id) == "nil"

\* s.bh.Insert(i.ID, i): badgerhold refuses a key that exists (ErrKeyExists).
bhInsert(id) ==
  IF index[id] # NoItem THEN "bhKeyExists" ELSE "nil"

PutInsert(s) ==
  /\ g[s].op = "Put" /\ g[s].pc = "insert"
  /\ LET id == g[s].id IN
       IF bhInsert(id) # "nil"
       THEN /\ g' = [g EXCEPT ![s].pc = "ret", ![s].err = bhInsert(id)]
            /\ UNCHANGED <<index, sw, deleted>>
       ELSE /\ index' = [index EXCEPT ![id] = g[s].item]
            /\ g' = [PutWrote(g, id) EXCEPT ![s].pc = "create", ![s].mine = TRUE]
            /\ sw' = SwPutWrote(id)
            /\ deleted' = deleted \ {id}
  /\ UNCHANGED <<now, dir, inode, pipe, liveRet, everRet, stored, rpcVars, countVars, proc>>

\* f, err := os.Create(<storage>/<id>): an existing file is truncated, and the
\* call can fail.
PutCreate(s) ==
  /\ g[s].op = "Put" /\ g[s].pc = "create"
  /\ LET id == g[s].id
         f  == IF dir[id] # 0 THEN dir[id] ELSE FreeInode
     IN  \/ /\ g' = [PutWrote(g, id) EXCEPT ![s].pc = "copy", ![s].f = f]
            /\ dir' = [dir EXCEPT ![id] = f]
            /\ inode' = [inode EXCEPT ![f] = EmptyFile]
            /\ sw' = SwPutWrote(id)
            /\ deleted' = deleted \ {id}
         \/ /\ g' = [g EXCEPT ![s].pc = "ret", ![s].err = "EIO"]
            /\ UNCHANGED <<dir, inode, sw, deleted>>
  /\ UNCHANGED <<now, index, pipe, liveRet, everRet, stored, rpcVars, countVars, proc>>

\* io.Copy(f, file): one chunk per step; a write can fail; the copy ends when
\* the source is at its end.
PutCopy(s) ==
  /\ g[s].op = "Put" /\ g[s].pc = "copy"
  /\ LET p == g[s].src
         f == g[s].f
     IN  IF pipe[p].rd < pipe[p].wr
         THEN \/ /\ inode' = [inode EXCEPT ![f] = [body |-> pipe[p].body, len |-> @.len + 1]]
                 /\ pipe' = [pipe EXCEPT ![p].rd = @ + 1]
                 /\ UNCHANGED g
              \/ /\ g' = [g EXCEPT ![s].pc = "ret", ![s].err = "EIO"]
                 /\ UNCHANGED <<inode, pipe>>
         ELSE /\ pipe[p].wclosed
              /\ g' = [g EXCEPT ![s].pc = "close"]
              /\ UNCHANGED <<inode, pipe>>
  /\ UNCHANGED <<now, index, dir, sw, deleted, liveRet, everRet, stored, rpcVars, countVars, proc>>

\* file.Close(); f.Close(); return id, nil
PutClose(s) ==
  /\ g[s].op = "Put" /\ g[s].pc = "close"
  /\ g' = [g EXCEPT ![s].pc = "ret", ![s].f = 0, ![s].src = 0]
  /\ pipe' = GcPipes(pipe, g', h, fdSrv)
  /\ inode' = GcInodes(inode, dir, g', h, fdCli)
  /\ liveRet' = IF g[s].mine THEN liveRet \cup {g[s].id} ELSE liveRet
  /\ everRet' = everRet \cup {g[s].id}
  /\ UNCHANGED <<now, index, dir, sw, deleted, stored, rpcVars, countVars, proc>>

\* ---------------------------------------------------------------- sweeper
\* s.bh.Find(&items, Where("Expires").Lt(time.Now())): the expired Items, in
\* key order.
RECURSIVE FindExpired(_)
FindExpired(i) ==
  IF i > NumIds THEN <<>>
  ELSE (IF index[i] # NoItem /\ Expired(index[i], now) THEN <<i>> ELSE <<>>)
       \o FindExpired(i + 1)

\* The cleanup goroutine and what Close shares with it: syn and ack are true
\* once stopSyn and stopAck are closed, kv is "closed" once bh.Close has run;
\* late records that stopSyn was closed while a sweep was going on.
SwIdle == [pc |-> "wait", items |-> <<>>, fresh |-> FALSE,
           syn |-> FALSE, ack |-> FALSE, kv |-> "open", late |-> FALSE]

\* cleanupExired is back at its select.
SwWait == [sw EXCEPT !.pc = "wait", !.items = <<>>, !.fresh = FALSE]

\* cleanupExired: the ticker fires and deleteExpired queries the index.
SweepFind ==
  /\ sw.pc = "wait"
  /\ sw' = [SwWait EXCEPT !.items = FindExpired(1),
                          !.pc = IF FindExpired(1) = <<>> THEN "wait" ELSE "del_idx"]
  /\ UNCHANGED <<now, index, dir, inode, pipe, g, deleted, liveRet, everRet, stored, rpcVars, countVars, proc>>

\* deleteExpired: s.Delete(i.ID), first statement; an error ends the sweep.
SweepDeleteIndex ==
  /\ sw.pc = "del_idx"
  /\ LET id == Head(sw.items) IN
       IF bhDelete(id) # "nil"
       THEN /\ sw' = SwWait
            /\ UNCHANGED <<index, g, liveRet, stored>>
       ELSE /\ index' = [index EXCEPT ![id] = NoItem]
            /\ g' = EntryRemoved(g, id)
            /\ sw' = [sw EXCEPT !.pc = "del_file", !.fresh = TRUE]
            /\ liveRet' = liveRet \ {id}
            /\ stored' = [stored EXCEPT ![id] = NoRec]
  /\ UNCHANGED <<now, dir, inode, pipe, deleted, everRet, rpcVars, countVars, proc>>

\* deleteExpired: s.Delete(i.ID), second statement, then the next Item.
SweepDeleteFile ==
  /\ sw.pc = "del_file"
  /\ LET id == Head(sw.items) IN
       IF osRemove(id) # "nil"
       THEN /\ sw' = SwWait
            /\ UNCHANGED <<dir, inode, deleted>>
       ELSE /\ dir' = [dir EXCEPT ![id] = 0]
            /\ sw' = IF Tail(sw.items) = <<>> THEN SwWait
                      ELSE [sw EXCEPT !.pc = "del_idx", !.items = Tail(@), !.fresh = FALSE]
            /\ deleted' = IF sw.fresh THEN deleted \cup {id} ELSE deleted
            /\ inode' = GcInodes(inode, dir', g, h, fdCli)
  /\ UNCHANGED <<now, index, pipe, g, liveRet, everRet, stored, rpcVars, countVars, proc>>

\* Store.Close, first statement: close(s.stopSyn).
StoreCloseSyn ==
  /\ cleanup
  /\ ~sw.syn
  /\ sw' = [sw EXCEPT !.syn = TRUE, !.late = (sw.pc # "wait")]
  /\ UNCHANGED <<now, index, dir, inode, pipe, g, deleted, liveRet, everRet, stored, rpcVars, countVars, proc>>

\* cleanupExired: the select takes <-s.stopSyn, closes stopAck and returns.
SweepStop ==
  /\ sw.pc = "wait"
  /\ sw.syn
  /\ sw' = [sw EXCEPT !.pc = "stopped", !.ack = TRUE]
  /\ UNCHANGED <<now, index, dir, inode, pipe, g, deleted, liveRet, everRet, stored, rpcVars, countVars, proc>>

\* A Close that goes on to bh.Close without the receive from stopAck.
JoinedAtOnce == TRUE

\* Store.Close, second statement: <-s.stopAck has returned.
Joined == sw.ack

\* Store.Close, last statement: s.bh.Close().
StoreCloseKv ==
  /\ sw.syn
  /\ sw.kv = "open"
  /\ Joined
  /\ sw' = [sw EXCEPT !.kv = "closed"]
  /\ UNCHANGED <<now, index, dir, inode, pipe, g, deleted, liveRet, everRet, stored, rpcVars, countVars, proc>>

\* time passes
Tick ==
  /\ now < MaxTime
  /\ now' = now + 1
  /\ stored' = [i \in Ids |-> IF Expired(stored[i].m, now') THEN NoRec ELSE stored[i]]
  /\ UNCHANGED <<index, dir, inode, pipe, g, sw, deleted, liveRet, everRet, rpcVars, countVars, proc>>

\* ------------------------------------------- the Store called directly
\* What a caller can hand to Put: the Item's fields other than the ID.
Metas == {[ID |-> 0, Created |-> 0, Expires |-> e, Burn |-> FALSE, Key |-> DeletionKey] : e \in Times}

\* A reader that holds the whole body b, as the tests hand to Put.
FullReader(b) == [body |-> b, wr |-> Size(b), rd |-> 0, wclosed |-> TRUE]

CallGet(s, id) ==
  /\ IsFirstIdle(s)
  /\ calls < MaxCalls
  /\ calls' = calls + 1
  /\ g' = [g EXCEPT ![s] = [Idle EXCEPT !.op = "Get", !.pc = "get", !.id = id]]
  /\ UNCHANGED <<now, index, dir, inode, pipe, sw, rpcVars, histVars, reqs, uploads, timeouts, proc>>

CallGetFile(s, id) ==
  /\ IsFirstIdle(s)
  /\ calls < MaxCalls
  /\ calls' = calls + 1
  /\ g' = [g EXCEPT ![s] = [Idle EXCEPT !.op = "GetFile", !.pc = "open", !.id = id]]
  /\ UNCHANGED <<now, index, dir, inode, pipe, sw, rpcVars, histVars, reqs, uploads, timeouts, proc>>

CallDelete(s, id) ==
  /\ IsFirstIdle(s)
  /\ calls < MaxCalls
  /\ calls' = calls + 1
  /\ g' = [g EXCEPT ![s] = [Idle EXCEPT !.op = "Delete", !.pc = "del_idx", !.id = id]]
  /\ UNCHANGED <<now, index, dir, inode, pipe, sw, rpcVars, histVars, reqs, uploads, timeouts, proc>>

CallPut(s, m, b) ==
  /\ IsFirstIdle(s)
  /\ calls < MaxCalls
  /\ b <= calls + 1
  /\ calls' = calls + 1
  /\ g' = [g EXCEPT ![s] = [Idle EXCEPT !.op = "Put", !.pc = "createID", !.item = m,
                                        !.src = FreePipe]]
  /\ pipe' = [pipe EXCEPT ![FreePipe] = FullReader(b)]
  /\ UNCHANGED <<now, index, dir, inode, sw, rpcVars, histVars, reqs, uploads, timeouts, proc>>

\* The method has returned to its caller; descriptors it still held are dropped.
Return(s) ==
  /\ g[s].pc = "ret"
  /\ g' = [g EXCEPT ![s] = Idle]
  /\ pipe' = GcPipes(pipe, g', h, fdSrv)
  /\ inode' = GcInodes(inode, dir, g', h, fdCli)
  /\ UNCHANGED <<now, index, dir, sw, rpcVars, histVars, countVars, proc>>

\* ============================================================== processes
\* The supervisor (mainMonitor) and its two children. A child runs the steps
\* of its main function one after the other, then serves.
Children == <<"store", "webserver">>
Platforms == {"linux", "openbsd", "other"}

\* posixPermDrop: uidGidForUserGroup, Chroot, Chdir, Setgroups, Setresgid,
\* Setresuid.
\* A variant for comparison: the uid is given up before the groups.
posixPermDropUidFirst == <<"uidGid", "chroot", "chdir", "setresuid", "setgroups", "setresgid">>

posixPermDropSteps == <<"uidGid", "chroot", "chdir", "setgroups", "setresgid", "setresuid">>

\* A variant for comparison: a store that serves rpc calls before it installs
\* the system call filter.
mainStoreStepsServeFirst ==
  <<"setup">> \o posixPermDropSteps \o <<"NewStore", "serve", "seccomp", "pledge", "notify">>

\* mainStore: the id generator and ensureStoreDir (setup), posixPermDrop,
\* restrict twice, NewStore and the sockets, NewStoreRpcServer (serve),
\* signal.Notify.
mainStoreSteps ==
  <<"setup">> \o posixPermDropSteps \o <<"seccomp", "pledge", "NewStore", "serve", "notify">>

\* mainWebserver: the sockets, files and mkListenSocket and MkdirTemp (setup),
\* posixPermDrop, restrict twice, NewServer, signal.Notify, the goroutine with
\* server.ServeFcgi or server.ServeHttpd (serve).
mainWebserverSteps ==
  <<"setup">> \o posixPermDropSteps \o <<"seccomp", "pledge", "NewServer", "notify", "serve">>

StepsOf(c) == IF c = "store" THEN mainStoreSteps ELSE mainWebserverSteps

\* restrict(op, ...) does something on the platform of op only.
Restricts(step, os) ==
  \/ step = "seccomp" /\ os = "linux"
  \/ step = "pledge" /\ os = "openbsd"

\* The steps that can return an error; then the child calls os.Exit(1).
CanFail(step, os) ==
  IF step \in {"seccomp", "pledge"} THEN Restricts(step, os)
  ELSE step \notin {"serve", "notify"}

\* A child process.
\*   i        the next step of its main function; past the last, it waits
\*            for SIGINT
\*   state    "run", "closing" (SIGINT taken from the channel), "exited"
\*   code     exit status
\*   chroot, dropped, filter    the sandbox so far
\*   serving  its server goroutine runs;  notified  signal.Notify was called
\*   served   history: it has answered a request
\*   failed   history: the step that returned an error
\*   sys      history: the system calls of posixPermDrop that have succeeded
\*   sigint, sigkill   signals sent to it and not yet acted on
\*   waited   procWait's goroutine has closed the channel
\*   gotInt, gotKill   history: the supervisor sent it the signal
NewChild == [i |-> 1, state |-> "run", code |-> 0, chroot |-> FALSE, dropped |-> FALSE,
             filter |-> "none", serving |-> FALSE, notified |-> FALSE, served |-> FALSE,
             failed |-> "", sigint |-> FALSE, sigkill |-> FALSE, waited |-> FALSE,
             gotInt |-> FALSE, gotKill |-> FALSE, sys |-> <<>>]

\* The supervisor from its select on.
\*   pc     "select", "signal" (childProc.Signal is next), "wait" (the inner
\*          select), "done" (the loop has ended)
\*   i      index of the loop over childProcs
\*   sigint SIGINT has been delivered to sigintCh
\*   timer  time.After(time.Second) has fired
NewMonitor == [pc |-> "select", i |-> 1, sigint |-> FALSE, timer |-> FALSE]

\* Both children serve and no signal was sent: the processes while requests
\* are handled.
Running ==
  [os |-> "linux", mon |-> NewMonitor,
   kid |-> [c \in {"store", "webserver"} |->
              [NewChild EXCEPT !.i = Len(StepsOf(c)) + 1, !.chroot = TRUE, !.dropped = TRUE,
                               !.filter = "seccomp", !.serving = TRUE, !.notified = TRUE,
                               !.sys = Tail(posixPermDropSteps)]]]

Alive(c) == proc.kid[c].state # "exited"

\* The sandbox of a child after a step has succeeded.
AfterStep(kid, step, os) ==
  [kid EXCEPT !.i = @ + 1,
              !.chroot = @ \/ step = "chroot",
              !.dropped = @ \/ step = "setresuid",
              !.filter = IF Restricts(step, os) THEN step ELSE @,
              !.serving = @ \/ step = "serve",
              !.notified = @ \/ step = "notify",
              !.sys = IF step \in Range(Tail(posixPermDropSteps)) THEN Append(@, step) ELSE @]

\* One step of mainStore or mainWebserver; on an error slog.Error and
\* os.Exit(1).
ChildStep(c) ==
  /\ proc.kid[c].state = "run"
  /\ proc.kid[c].i <= Len(StepsOf(c))
  /\ LET step == StepsOf(c)[proc.kid[c].i] IN
       \/ proc' = [proc EXCEPT !.kid[c] = AfterStep(@, step, proc.os)]
       \/ /\ CanFail(step, proc.os)
          /\ proc' = [proc EXCEPT !.kid[c].state = "exited", !.kid[c].code = 1,
                                  !.kid[c].failed = step, !.kid[c].serving = FALSE]
  /\ UNCHANGED <<storeVars, rpcVars, histVars, countVars>>

\* The store answers an rpc call, the webserver handles an HTTP request.
ChildServe(c) ==
  /\ Alive(c) /\ proc.kid[c].serving
  /\ proc' = [proc EXCEPT !.kid[c].served = TRUE]
  /\ UNCHANGED <<storeVars, rpcVars, histVars, countVars>>

\* A serving child ends by itself: the webserver's goroutine calls os.Exit(1)
\* when its server fails.
ChildFails(c) ==
  /\ proc.kid[c].state = "run" /\ proc.kid[c].serving
  /\ proc' = [proc EXCEPT !.kid[c].state = "exited", !.kid[c].code = 1,
                          !.kid[c].serving = FALSE]
  /\ UNCHANGED <<storeVars, rpcVars, histVars, countVars>>

\* SIGINT reaches a child: before signal.Notify the Go runtime ends the
\* process with status 2; after it the signal waits in the channel until main
\* reads it, and main goes on to close the server.
ChildSigint(c) ==
  /\ proc.kid[c].state = "run" /\ proc.kid[c].sigint
  /\ \/ /\ ~proc.kid[c].notified
        /\ proc' = [proc EXCEPT !.kid[c].state = "exited", !.kid[c].code = 2,
                                !.kid[c].sigint = FALSE, !.kid[c].serving = FALSE]
     \/ /\ proc.kid[c].notified /\ proc.kid[c].i > Len(StepsOf(c))
        /\ proc' = [proc EXCEPT !.kid[c].state = "closing", !.kid[c].sigint = FALSE]
  /\ UNCHANGED <<storeVars, rpcVars, histVars, countVars>>

\* rpcStore.Close(), or the deferred server.Close(), has returned and main
\* returns; mainStore calls os.Exit(1) if Close returned an error.
ChildClose(c) ==
  /\ proc.kid[c].state = "closing"
  /\ \E code \in {0, 1} :
       /\ code = 1 => c = "store"
       /\ proc' = [proc EXCEPT !.kid[c].state = "exited", !.kid[c].code = code,
                               !.kid[c].serving = FALSE]
  /\ UNCHANGED <<storeVars, rpcVars, histVars, countVars>>

\* The kernel ends a process that was sent SIGKILL.
ChildKilled(c) ==
  /\ Alive(c) /\ proc.kid[c].sigkill
  /\ proc' = [proc EXCEPT !.kid[c].state = "exited", !.kid[c].code = 137,
                          !.kid[c].sigkill = FALSE, !.kid[c].serving = FALSE]
  /\ UNCHANGED <<storeVars, rpcVars, histVars, countVars>>

\* procWait: go func() { proc.Wait(); close(ch) }
procWait(c) ==
  /\ ~Alive(c) /\ ~proc.kid[c].waited
  /\ proc' = [proc EXCEPT !.kid[c].waited = TRUE]
  /\ UNCHANGED <<storeVars, rpcVars, histVars, countVars>>

\* SIGINT is sent to the supervisor.
MonSigint ==
  /\ proc.mon.pc = "select" /\ ~proc.mon.sigint
  /\ proc' = [proc EXCEPT !.mon.sigint = TRUE]
  /\ UNCHANGED <<storeVars, rpcVars, histVars, countVars>>

\* select { case <-sigintCh: case <-storeCh: case <-webserverCh: }
MonSelect ==
  /\ proc.mon.pc = "select"
  /\ proc.mon.sigint \/ \E c \in {"store", "webserver"} : proc.kid[c].waited
  /\ proc' = [proc EXCEPT !.mon.pc = "signal"]
  /\ UNCHANGED <<storeVars, rpcVars, histVars, countVars>>

\* _ = childProc.Signal(unix.SIGINT): an error for a process that was waited
\* for already.
MonSignal ==
  /\ proc.mon.pc = "signal"
  /\ LET c == Children[proc.mon.i] IN
       proc' = [proc EXCEPT !.mon.pc = "wait", !.mon.timer = FALSE,
                            !.kid[c].sigint = @ \/ ~proc.kid[c].waited,
                            !.kid[c].gotInt = @ \/ ~proc.kid[c].waited]
  /\ UNCHANGED <<storeVars, rpcVars, histVars, countVars>>

\* A second has passed since the inner select began.
MonTimer ==
  /\ proc.mon.pc = "wait" /\ ~proc.mon.timer
  /\ proc' = [proc EXCEPT !.mon.timer = TRUE]
  /\ UNCHANGED <<storeVars, rpcVars, histVars, countVars>>

\* The loop goes on to the next child, or ends.
MonNext(mon) ==
  IF mon.i < Len(Children) THEN [mon EXCEPT !.pc = "signal", !.i = @ + 1]
  ELSE [mon EXCEPT !.pc = "done"]

\* select { case <-childWaits[i]: case <-time.After(time.Second):
\* _ = childProc.Kill() }
MonWait ==
  /\ proc.mon.pc = "wait"
  /\ LET c == Children[proc.mon.i] IN
       \/ /\ proc.kid[c].waited
          /\ proc' = [proc EXCEPT !.mon = MonNext(@)]
       \/ /\ proc.mon.timer
          /\ proc' = [proc EXCEPT !.mon = MonNext(@),
                                  !.kid[c].sigkill = @ \/ ~proc.kid[c].waited,
                                  !.kid[c].gotKill = @ \/ ~proc.kid[c].waited]
  /\ UNCHANGED <<storeVars, rpcVars, histVars, countVars>>

\* --------------------------------------------------------------- SpecProc
\* The children have just been started; no request is modelled beyond the
\* fact that a child has served one.
InitProc ==
  /\ \E os \in Platforms :
       proc = [os |-> os, mon |-> NewMonitor,
               kid |-> [c \in {"store", "webserver"} |-> NewChild]]
  /\ now = 0
  /\ index = [i \in Ids |-> NoItem]
  /\ dir = [i \in Ids |-> 0]
  /\ inode = [n \in Inodes |-> EmptyFile]
  /\ pipe = [p \in Pipes |-> NoPipe]
  /\ g = [s \in Slots |-> Idle]
  /\ sw = SwIdle
  /\ h = [k \in Handlers |-> NoHandler]
  /\ owner = [s \in Slots |-> 0]
  /\ fdSrv = <<>>
  /\ fdCli = <<>>
  /\ deleted = {}
  /\ liveRet = {}
  /\ everRet = {}
  /\ stored = [i \in Ids |-> NoRec]
  /\ calls = 0
  /\ reqs = 0
  /\ uploads = 0
  /\ timeouts = 0

NextProc ==
  \/ \E c \in {"store", "webserver"} : ChildStep(c)
  \/ \E c \in {"store", "webserver"} : ChildServe(c)
  \/ \E c \in {"store", "webserver"} : ChildFails(c)
  \/ \E c \in {"store", "webserver"} : ChildSigint(c)
  \/ \E c \in {"store", "webserver"} : ChildClose(c)
  \/ \E c \in {"store", "webserver"} : ChildKilled(c)
  \/ \E c \in {"store", "webserver"} : procWait(c)
  \/ MonSigint
  \/ MonSelect
  \/ MonSignal
  \/ MonTimer
  \/ MonWait

SpecProc == InitProc /\ [][NextProc]_vars

\* ------------------------------------------------------------------- Spec
Init ==
  /\ now = 0
  /\ index = [i \in Ids |-> NoItem]
  /\ dir = [i \in Ids |-> 0]
  /\ inode = [n \in Inodes |-> EmptyFile]
  /\ pipe = [p \in Pipes |-> NoPipe]
  /\ g = [s \in Slots |-> Idle]
  /\ sw = SwIdle
  /\ h = [k \in Handlers |-> NoHandler]
  /\ owner = [s \in Slots |-> 0]
  /\ fdSrv = <<>>
  /\ fdCli = <<>>
  /\ deleted = {}
  /\ liveRet = {}
  /\ everRet = {}
  /\ stored = [i \in Ids |-> NoRec]
  /\ calls = 0
  /\ reqs = 0
  /\ uploads = 0
  /\ timeouts = 0
  /\ proc = Running

StoreStep ==
  \E s \in Slots :
    \/ Get(s)
    \/ DeleteIndex(s)
    \/ DeleteFile(s)
    \/ GetFile(s)
    \/ PutCreateID(s)
    \/ PutInsert(s)
    \/ PutCreate(s)
    \/ PutCopy(s)
    \/ PutClose(s)

Sweeper ==
  \/ SweepFind
  \/ SweepDeleteIndex
  \/ SweepDeleteFile

Next ==
  \/ StoreStep
  \/ Sweeper
  \/ Tick
  \/ \E s \in Slots, id \in Ids : CallGet(s, id)
  \/ \E s \in Slots, id \in Ids : CallGetFile(s, id)
  \/ \E s \in Slots, id \in Ids : CallDelete(s, id)
  \/ \E s \in Slots, m \in Metas, b \in Bodies : CallPut(s, m, b)
  \/ \E s \in Slots : Return(s)

Spec == Init /\ [][Next]_vars

\* -------------------------------------------------------------- SpecClose
\* The Store with its sweeper and one Close. Calls into the Store are taken
\* while the KV store is open; what badger answers on a closed database is
\* not modelled.
NextClose ==
  \/ sw.kv = "open" /\ StoreStep
  \/ Sweeper
  \/ SweepStop
  \/ StoreCloseSyn
  \/ StoreCloseKv
  \/ Tick
  \/ \E s \in Slots, id \in Ids : sw.kv = "open" /\ CallGet(s, id)
  \/ \E s \in Slots, id \in Ids : sw.kv = "open" /\ CallDelete(s, id)
  \/ \E s \in Slots, m \in Metas, b \in Bodies : sw.kv = "open" /\ CallPut(s, m, b)
  \/ \E s \in Slots : Return(s)

SpecClose == Init /\ [][NextClose]_vars

\* ============================================= webserver, client and server
\* Handlers are interchangeable: a new request takes the first handler that is
\* idle and whose earlier Put goroutines have all ended.
Free(k) ==
  /\ h[k].pc = "idle"
  /\ h[k].put.copy = "done" /\ h[k].put.send = "done" /\ h[k].put.call = "done"

IsFirstFree(k) == Free(k) /\ \A j \in Handlers : Free(j) => k <= j

\* context.Background().Err(), which StoreRpcClient.call returns on a timeout.
CtxErr == NilErr

\* client.rpcClient.Go(method, args): the invocation the server starts for it.
Invocation(method, id, item) ==
  [Idle EXCEPT !.op = method, !.id = id, !.item = item,
               !.pc = CASE method = "Get" -> "get"
                        [] method = "GetFile" -> "open"
                        [] method = "Delete" -> "del_idx"
                        [] method = "Put" -> "recvFd"]

\* A variant for comparison: the client passes the error on as it came.
ClientGetErrAsReceived(err) == err

\* StoreRpcClient.Get, after call: the error's type is lost on the wire and
\* ErrNotFound is restored by its message.
ClientGetErr(err) ==
  IF err # NilErr /\ err.msg = ErrNotFound.msg THEN ErrNotFound ELSE err

\* A variant for comparison: a handleRequest that burns only what was sent in
\* full.
AfterServeOnlyIfComplete(hk, complete) ==
  IF hk.item.Burn /\ complete
  THEN [hk |-> [hk EXCEPT !.pc = "burn"], inv |-> Invocation("Delete", hk.item.ID, NoItem)]
  ELSE [hk |-> [hk EXCEPT !.pc = "idle"], inv |-> Idle]

\* handleRequest after handleRequestServe has returned nil: the Delete of a
\* burn-after-reading Item. Whether io.Copy(w, f) went through (complete) is
\* not known here: handleRequestServe drops its error.
AfterServe(hk, complete) ==
  IF hk.item.Burn
  THEN [hk |-> [hk EXCEPT !.pc = "burn"], inv |-> Invocation("Delete", hk.item.ID, NoItem)]
  ELSE [hk |-> [hk EXCEPT !.pc = "idle"], inv |-> Idle]

\* A variant for comparison: a check that takes the creation time itself for
\* a time after it.
hasClientCachedRequestFromCreated(ims, item) ==
  ims # NoIms /\ item.Created <= ims /\ item.Expires > ims

\* hasClientCachedRequest: http.ParseTime of the If-Modified-Since header
\* (NoIms: no header, or one that does not parse), then
\* item.Created.Before(ims) && item.Expires.After(ims).
hasClientCachedRequest(ims, item) ==
  ims # NoIms /\ item.Created < ims /\ item.Expires > ims

\* A variant for comparison: a handleRequest that deletes a burn-after-reading
\* Item as soon as Get has returned it, before the blob is opened and sent.
AfterGetBurnsFirst(hk, item, err, to) ==
  LET e == ClientGetErr(err) IN
    IF e = ErrNotFound
    THEN [hk |-> [hk EXCEPT !.pc = "idle", !.err = e, !.timedOut = to, !.resp = 404],
          inv |-> Idle]
    ELSE IF e # NilErr
    THEN [hk |-> [hk EXCEPT !.pc = "idle", !.err = e, !.timedOut = to, !.resp = 400],
          inv |-> Idle]
    ELSE IF item.Burn
    THEN [hk |-> [hk EXCEPT !.pc = "burn", !.err = e, !.timedOut = to, !.item = item],
          inv |-> Invocation("Delete", item.ID, NoItem)]
    ELSE [hk |-> [hk EXCEPT !.pc = "getfile", !.err = e, !.timedOut = to, !.item = item],
          inv |-> Invocation("GetFile", item.ID, NoItem)]

\* handleRequest from the return of serv.store.Get to its next call: the new
\* handler state, and the invocation it starts (Idle if none). A conditional
\* GET that the client has cached is answered 304 and goes on to the Delete
\* of a burn-after-reading Item.
AfterGet(hk, item, err, to) ==
  LET e == ClientGetErr(err) IN
    IF e = ErrNotFound
    THEN [hk |-> [hk EXCEPT !.pc = "idle", !.err = e, !.timedOut = to, !.resp = 404],
          inv |-> Idle]
    ELSE IF e # NilErr
    THEN [hk |-> [hk EXCEPT !.pc = "idle", !.err = e, !.timedOut = to, !.resp = 400],
          inv |-> Idle]
    ELSE IF hasClientCachedRequest(hk.ims, item)
    THEN AfterServe([hk EXCEPT !.err = e, !.timedOut = to, !.item = item, !.resp = 304],
                    FALSE)
    ELSE [hk |-> [hk EXCEPT !.pc = "getfile", !.err = e, !.timedOut = to, !.item = item],
          inv |-> Invocation("GetFile", item.ID, NoItem)]

\* StoreRpcClient.GetFile after call, and handleRequestServe / handleRequest
\* if it returns an error.
AfterGetFile(hk, err, to) ==
  IF err # NilErr
  THEN [hk EXCEPT !.pc = "idle", !.err = err, !.timedOut = to, !.resp = 400]
  ELSE [hk EXCEPT !.pc = "recvFd", !.err = err, !.timedOut = to]

\* handleRequest after the Delete of a burn-after-reading Item: an error is
\* only logged.
AfterBurn(hk, err, to) ==
  [hk EXCEPT !.pc = "idle", !.err = err, !.timedOut = to]

\* a != b on strings: the lengths are compared first; strings of one length
\* are compared by memequal, word by word up to the first word that differs.
\* ne is the result, work the number of words compared.
StringsDiffer(a, b) ==
  LET diff == {i \in 1..Len(a) : a[i] # b[i]} IN
    IF Len(a) # Len(b) THEN [ne |-> TRUE, work |-> 0]
    ELSE IF diff = {} THEN [ne |-> FALSE, work |-> Len(a)]
    ELSE [ne |-> TRUE, work |-> Min(diff)]

\* A variant for comparison: a handleDeletion that does not look at the key.
AfterDelGetAnyKey(hk, item, err, to) ==
  LET e == ClientGetErr(err) IN
    IF e = ErrNotFound
    THEN [hk |-> [hk EXCEPT !.pc = "idle", !.err = e, !.timedOut = to, !.resp = 404],
          inv |-> Idle]
    ELSE IF e # NilErr
    THEN [hk |-> [hk EXCEPT !.pc = "idle", !.err = e, !.timedOut = to, !.resp = 400],
          inv |-> Idle]
    ELSE [hk |-> [hk EXCEPT !.pc = "del", !.err = e, !.timedOut = to, !.item = item],
          inv |-> Invocation("Delete", item.ID, NoItem)]

\* handleDeletion from the return of serv.store.Get to its next call: the
\* key check, and the Delete.
AfterDelGet(hk, item, err, to) ==
  LET e   == ClientGetErr(err)
      cmp == StringsDiffer(item.Key, hk.key)
  IN  IF e = ErrNotFound
      THEN [hk |-> [hk EXCEPT !.pc = "idle", !.err = e, !.timedOut = to, !.resp = 404],
            inv |-> Idle]
      ELSE IF e # NilErr
      THEN [hk |-> [hk EXCEPT !.pc = "idle", !.err = e, !.timedOut = to, !.resp = 400],
            inv |-> Idle]
      ELSE IF cmp.ne
      THEN [hk |-> [hk EXCEPT !.pc = "idle", !.err = e, !.timedOut = to, !.item = item,
                              !.work = cmp.work, !.resp = 403],
            inv |-> Idle]
      ELSE [hk |-> [hk EXCEPT !.pc = "del", !.err = e, !.timedOut = to, !.item = item,
                              !.work = cmp.work],
            inv |-> Invocation("Delete", item.ID, NoItem)]

\* handleDeletion after its Delete.
AfterDeletion(hk, err, to) ==
  [hk EXCEPT !.pc = "idle", !.err = err, !.timedOut = to,
             !.resp = IF err # NilErr THEN 400 ELSE 200]

\* The handler goes on after Get or Delete has returned.
OnGet(hk, item, err, to) ==
  IF hk.kind = "delete" THEN AfterDelGet(hk, item, err, to) ELSE AfterGet(hk, item, err, to)

OnDelete(hk, err, to) ==
  IF hk.kind = "delete" THEN AfterDeletion(hk, err, to) ELSE AfterBurn(hk, err, to)

\* The call goroutine of StoreRpcClient.Put: errChan <- client.call("Put", ...)
AfterPutCall(hk, id, err, to) ==
  [hk EXCEPT !.put.ch = Append(@, err), !.put.call = "done", !.put.itemId = id,
             !.put.callOk = (err = NilErr /\ ~to),
             !.timedOut = IF hk.pc = "put" THEN to ELSE @]

\* ----------------------------------------------------------- handleUpload
\* The upload form as NewItemFromRequest reads it: the size of the file part,
\* its Content-Type header ("" if it has none) and the time field. A time
\* field is empty (NoField), not a duration string (BadField), or a number
\* and a unit.
MaxSize == BodyLen
MaxCount == 3
DurBits == 4
YearLen == 3
Units == {"s", "y"}
ContentTypes == {"", "text/plain", "text/html"}
mimeDrop == {"text/html"}
TimeFields == {NoField, BadField} \cup [n : 0..MaxCount, unit : Units]
Requests == [size : 0..(MaxSize + 1), mime : ContentTypes, time : TimeFields]

\* The units of internal.ParseDuration, in seconds.
durations(unit) == IF unit = "y" THEN YearLen ELSE 1

\* A product of two time.Duration values, which is an int64: here an integer
\* of DurBits bits in two's complement.
DurMul(a, b) == ((a * b + 2 ^ (DurBits - 1)) % (2 ^ DurBits)) - 2 ^ (DurBits - 1)

\* internal.ParseDuration: d += time.Duration(elemVal) * durations[elemKey]
ParseDuration(f) ==
  IF f.n < 0 THEN [d |-> 0, err |-> "ErrNoMatch"]
  ELSE [d |-> DurMul(f.n, durations(f.unit)), err |-> "nil"]

\* A variant for comparison: a size check that turns away a file of the
\* greatest size as well.
NewItemFromRequestBelowMax(req, burn, t) ==
  LET parseLt == ParseDuration(req.time)
      item    == [ID |-> 0, Created |-> t, Expires |-> t, Burn |-> burn, Key |-> DeletionKey]
  IN  IF req.size >= MaxSize THEN [item |-> NoItem, err |-> "ErrFileTooBig"]
      ELSE IF req.size <= 0 THEN [item |-> NoItem, err |-> "file size is zero"]
      ELSE IF req.mime = "" THEN [item |-> NoItem, err |-> "missing Content-Type"]
      ELSE IF req.time = NoField
      THEN [item |-> [item EXCEPT !.Expires = t + MaxLifetime], err |-> "nil"]
      ELSE IF parseLt.err # "nil" THEN [item |-> NoItem, err |-> parseLt.err]
      ELSE IF parseLt.d > MaxLifetime THEN [item |-> NoItem, err |-> "ErrLifetimeTooLong"]
      ELSE [item |-> [item EXCEPT !.Expires = t + parseLt.d], err |-> "nil"]

\* NewItemFromRequest(r, maxSize, maxLifetime) at the time t.
NewItemFromRequest(req, burn, t) ==
  LET parseLt == ParseDuration(req.time)
      item    == [ID |-> 0, Created |-> t, Expires |-> t, Burn |-> burn, Key |-> DeletionKey]
  IN  IF req.size > MaxSize THEN [item |-> NoItem, err |-> "ErrFileTooBig"]
      ELSE IF req.size <= 0 THEN [item |-> NoItem, err |-> "file size is zero"]
      ELSE IF req.mime = "" THEN [item |-> NoItem, err |-> "missing Content-Type"]
      ELSE IF req.time = NoField
      THEN [item |-> [item EXCEPT !.Expires = t + MaxLifetime], err |-> "nil"]
      ELSE IF parseLt.err # "nil" THEN [item |-> NoItem, err |-> parseLt.err]
      ELSE IF parseLt.d > MaxLifetime THEN [item |-> NoItem, err |-> "ErrLifetimeTooLong"]
      ELSE [item |-> [item EXCEPT !.Expires = t + parseLt.d], err |-> "nil"]

\* StoreRpcClient.Put up to the start of its goroutines: pipe2(), errChan,
\* finChan. The file of the request is the body b.
PutStart(k, item, b, req) ==
  /\ IsFirstFree(k)
  /\ reqs < MaxRequests
  /\ uploads' = uploads + 1
  /\ reqs' = reqs + 1
  /\ LET p == FreePipe IN
       /\ pipe' = [GcPipes(pipe, g, [h EXCEPT ![k] = NoHandler], fdSrv)
                     EXCEPT ![p] = [NoPipe EXCEPT !.body = b]]
       /\ h' = [h EXCEPT ![k] =
                  [NoHandler EXCEPT
                     !.kind = "upload", !.pc = "put", !.body = b, !.seq = reqs + 1,
                     !.item = item, !.req = req,
                     !.put = [NoPut EXCEPT !.copy = "run", !.send = "todo", !.call = "todo",
                                           !.main = "select", !.p = p]]]
  /\ UNCHANGED <<now, index, dir, inode, g, sw, owner, fdSrv, fdCli, histVars, calls, timeouts, proc>>

\* handleUpload for a form that passes NewItemFromRequest and the MIME check,
\* with a time field of life seconds.
StartUpload(k, life, burn, b) ==
  PutStart(k, [ID |-> 0, Created |-> now, Expires |-> now + life, Burn |-> burn,
               Key |-> DeletionKey],
           b, [size |-> Size(b), mime |-> "text/plain", time |-> [n |-> life, unit |-> "s"]])

\* handleUpload answers with http.Error and returns.
UploadRejected(k, req, code) ==
  /\ IsFirstFree(k)
  /\ reqs < MaxRequests
  /\ reqs' = reqs + 1
  /\ h' = [h EXCEPT ![k] = [NoHandler EXCEPT !.kind = "upload", !.req = req,
                                            !.seq = reqs + 1, !.resp = code]]
  /\ pipe' = GcPipes(pipe, g, h', fdSrv)
  /\ UNCHANGED <<now, index, dir, inode, g, sw, owner, fdSrv, fdCli, histVars, calls,
                 uploads, timeouts, proc>>

\* A variant for comparison: a handleUpload without the mimeDrop check.
handleUploadAnyMime(k, req, burn) ==
  LET r == NewItemFromRequest(req, burn, now) IN
    IF r.err \in {"ErrLifetimeTooLong", "ErrFileTooBig"} THEN UploadRejected(k, req, 406)
    ELSE IF r.err # "nil" THEN UploadRejected(k, req, 400)
    ELSE PutStart(k, r.item, req.size, req)

\* handleUpload up to the start of the goroutines of serv.store.Put, or to
\* its return.
handleUpload(k, req, burn) ==
  LET r == NewItemFromRequest(req, burn, now) IN
    IF r.err \in {"ErrLifetimeTooLong", "ErrFileTooBig"} THEN UploadRejected(k, req, 406)
    ELSE IF r.err # "nil" THEN UploadRejected(k, req, 400)
    ELSE IF req.mime \in mimeDrop THEN UploadRejected(k, req, 400)
    ELSE PutStart(k, r.item, req.size, req)

\* A write to the pipe returns only when the pipe has room for the chunk.
HasRoom(p) == pipe[p].wr - pipe[p].rd < PipeCap

\* No read end of the pipe is open any more: the client's dataReader is
\* never closed by Put and goes with its finalizer once sendFd has returned,
\* and the store holds no copy of it, received or still on the FD socket.
ReaderGone(k) ==
  LET p == h[k].put.p IN
    /\ h[k].put.send = "done"
    /\ p \notin FdsIn(fdSrv)
    /\ \A s \in Slots : g[s].src # p

\* go func() { io.Copy(dataWriter, file); dataWriter.Close(); errChan <- ... }
\* One chunk per step; reading the request body can fail, and so can the
\* write once no read end is left (EPIPE).
PutCopyTask(k) ==
  /\ h[k].put.copy \in {"run", "last"}
  /\ LET p == h[k].put.p IN
       \/ /\ h[k].put.copy = "run" /\ pipe[p].wr < Size(pipe[p].body) /\ HasRoom(p)
          /\ pipe' = [pipe EXCEPT ![p].wr = @ + 1]
          /\ UNCHANGED h
       \/ /\ h[k].put.copy = "run" /\ pipe[p].wr < Size(pipe[p].body)
          /\ HasRoom(p) \/ ReaderGone(k)
          /\ pipe' = [pipe EXCEPT ![p].wclosed = TRUE]
          /\ h' = [h EXCEPT ![k].put.copy = "last",
                            ![k].put.ch = Append(@, ErrOther("copy"))]
       \/ /\ h[k].put.copy = "run" /\ pipe[p].wr = Size(pipe[p].body)
          /\ pipe' = [pipe EXCEPT ![p].wclosed = TRUE]
          /\ h' = [h EXCEPT ![k].put.copy = "done", ![k].put.copyOk = TRUE,
                            ![k].put.ch = Append(@, NilErr)]
       \/ /\ h[k].put.copy = "last" /\ Len(h[k].put.ch) < producers
          /\ h' = [h EXCEPT ![k].put.copy = "done", ![k].put.ch = Append(@, NilErr)]
          /\ UNCHANGED pipe
  /\ UNCHANGED <<now, index, dir, inode, g, sw, owner, fdSrv, fdCli, histVars, countVars, proc>>

\* go func() { errChan <- sendFd(dataReader, client.fdConn) }
PutSendTask(k) ==
  /\ h[k].put.send = "todo"
  /\ \/ /\ fdSrv' = Append(fdSrv, UnixRights(h[k].put.p))
        /\ h' = [h EXCEPT ![k].put.send = "done", ![k].put.sendOk = TRUE,
                          ![k].put.ch = Append(@, NilErr)]
     \/ /\ h' = [h EXCEPT ![k].put.send = "done",
                          ![k].put.ch = Append(@, ErrOther("sendFd"))]
        /\ UNCHANGED fdSrv
  /\ UNCHANGED <<storeVars, owner, fdCli, histVars, countVars, proc>>

\* go func() { errChan <- client.call("Put", item, &itemId, ctx) }: the call
\* is sent.
PutCallTask(k, s) ==
  /\ h[k].put.call = "todo"
  /\ IsFirstIdle(s)
  /\ g' = [g EXCEPT ![s] = Invocation("Put", 0, h[k].item)]
  /\ owner' = [owner EXCEPT ![s] = k]
  /\ h' = [h EXCEPT ![k].put.call = "wait"]
  /\ UNCHANGED <<now, index, dir, inode, pipe, sw, fdSrv, fdCli, histVars, countVars, proc>>

\* StoreRpcClient.Put from its select to its return, and handleUpload's answer.
\* Either finChan is closed (all three goroutines have ended), or the timeout
\* of Put fires and puts its error into errs; then producers values are read
\* from errChan, which blocks until they are there.
PutReturn(hk) ==
  LET put == hk.put
      bad == put.bad \/ \E i \in 1..producers : put.ch[i] # NilErr
  IN  [hk EXCEPT !.put = [put EXCEPT !.ch = SubSeq(@, producers + 1, Len(@)),
                                     !.got = producers, !.bad = bad, !.main = "none"],
                 !.pc = "idle",
                 !.err = IF bad THEN ErrOther("put") ELSE NilErr,
                 !.id = IF bad THEN 0 ELSE put.itemId,
                 !.resp = IF bad THEN 400 ELSE 200]

PutSelect(k) ==
  /\ h[k].pc = "put"
  /\ \/ /\ h[k].put.main = "select"
        /\ h[k].put.copy = "done" /\ h[k].put.send = "done" /\ h[k].put.call = "done"
        /\ h' = [h EXCEPT ![k] = PutReturn(h[k])]
        /\ UNCHANGED timeouts
     \/ /\ h[k].put.main = "select"
        /\ h' = [h EXCEPT ![k].put.main = "collect", ![k].put.bad = TRUE]
        /\ UNCHANGED timeouts
     \/ /\ h[k].put.main = "collect"
        /\ Len(h[k].put.ch) >= producers
        /\ h' = [h EXCEPT ![k] = PutReturn(h[k])]
        /\ UNCHANGED timeouts
  /\ stored' = IF /\ h'[k].resp = 200 /\ h'[k].id \in liveRet
                  /\ ~Expired(h[k].item, now)
               THEN [stored EXCEPT ![h'[k].id] =
                       [m |-> [h[k].item EXCEPT !.ID = h'[k].id],
                        body |-> h[k].body, seq |-> h[k].seq]]
               ELSE stored
  /\ UNCHANGED <<storeVars, owner, fdSrv, fdCli, deleted, liveRet, everRet, calls, reqs, uploads, proc>>

\* ---------------------------------------------------------- handleRequest
\* The ids of which a fetch has ended that read a burn-after-reading Item.
BurntIds ==
  {h[j].id : j \in {i \in Handlers : /\ h[i].kind = "fetch" /\ h[i].pc = "idle"
                                       /\ h[i].resp = 200 /\ h[i].complete
                                       /\ h[i].item.Burn}}

\* handleRequest up to serv.store.Get(reqId, context.Background()); ims is the
\* time of the If-Modified-Since header.
StartFetch(k, s, id, ims) ==
  /\ IsFirstFree(k)
  /\ IsFirstIdle(s)
  /\ reqs < MaxRequests
  /\ reqs' = reqs + 1
  /\ h' = [h EXCEPT ![k] = [NoHandler EXCEPT !.kind = "fetch", !.pc = "get", !.id = id,
                                            !.ims = ims,
                                            !.seq = reqs + 1, !.want = stored[id],
                                            !.burnt = id \in BurntIds]]
  /\ g' = [g EXCEPT ![s] = Invocation("Get", id, NoItem)]
  /\ owner' = [owner EXCEPT ![s] = k]
  /\ pipe' = GcPipes(pipe, g', h', fdSrv)
  /\ UNCHANGED <<now, index, dir, inode, sw, fdSrv, fdCli, histVars, calls, uploads, timeouts, proc>>

\* handleDeletion up to serv.store.Get(reqId, context.Background()), for a
\* path of three parts.
StartDeletion(k, s, id, key) ==
  /\ IsFirstFree(k)
  /\ IsFirstIdle(s)
  /\ reqs < MaxRequests
  /\ reqs' = reqs + 1
  /\ h' = [h EXCEPT ![k] = [NoHandler EXCEPT !.kind = "delete", !.pc = "get", !.id = id,
                                            !.key = key, !.seq = reqs + 1,
                                            !.had = index[id]]]
  /\ g' = [g EXCEPT ![s] = Invocation("Get", id, NoItem)]
  /\ owner' = [owner EXCEPT ![s] = k]
  /\ pipe' = GcPipes(pipe, g', h', fdSrv)
  /\ UNCHANGED <<now, index, dir, inode, sw, fdSrv, fdCli, histVars, calls, uploads, timeouts, proc>>

\* StoreRpcClient.GetFile: recvFd(client.fdConn); then handleRequestServe: the
\* headers, 200, io.Copy(w, f) - which ends early when the peer resets the
\* connection -, f.Close(); then handleRequest goes on.
Serve(k, s) ==
  /\ h[k].pc = "recvFd"
  /\ fdCli # <<>>
  /\ \E complete \in BOOLEAN :
       LET got   == recvFd(Head(fdCli))
           f     == got.fd
           whole == IF f = StorageDir THEN EmptyFile ELSE inode[f]
           r     == IF got.err # "nil"
                    THEN [hk |-> AfterGetFile(h[k], ErrOther(got.err), FALSE), inv |-> Idle]
                    ELSE AfterServe([h[k] EXCEPT
                                  !.served = IF complete THEN whole
                                             ELSE [whole EXCEPT !.len = 0],
                                  !.complete = complete,
                                  !.servedAt = now, !.resp = 200], complete)
       IN  /\ fdCli' = Tail(fdCli)
           /\ h' = [h EXCEPT ![k] = r.hk]
           /\ IF r.inv # Idle
              THEN /\ IsFirstIdle(s)
                   /\ g' = [g EXCEPT ![s] = r.inv]
                   /\ owner' = [owner EXCEPT ![s] = k]
              ELSE /\ s = 1
                   /\ UNCHANGED <<g, owner>>
           /\ inode' = GcInodes(inode, dir, g', h', fdCli')
  /\ UNCHANGED <<now, index, dir, pipe, sw, fdSrv, histVars, countVars, proc>>

\* --------------------------------------------------------- StoreRpcServer
\* StoreRpcServer.Put: fd, err := recvFd(server.fdConn), whatever message is
\* next on the FD socket; an error is returned, and the descriptors the
\* message held are not looked at again.
SrvRecvFd(s) ==
  /\ g[s].op = "Put" /\ g[s].pc = "recvFd"
  /\ fdSrv # <<>>
  /\ LET got == recvFd(Head(fdSrv)) IN
       g' = [g EXCEPT ![s] = IF got.err # "nil"
                             THEN [@ EXCEPT !.pc = "ret", !.err = got.err]
                             ELSE [@ EXCEPT !.pc = "createID", !.src = got.fd]]
  /\ fdSrv' = Tail(fdSrv)
  /\ UNCHANGED <<now, index, dir, inode, pipe, sw, h, owner, fdCli, histVars, countVars, proc>>

\* The Store method has returned: the StoreRpcServer method ends (GetFile
\* sends the descriptor and closes its own), net/rpc writes the reply, and the
\* client's call - if it still waits - takes it from call.Done. A handler that
\* goes on to its next call sends it at once.
SrvReturn(s) ==
  /\ g[s].pc = "ret"
  /\ LET k   == owner[s]
         err == ServerError(g[s].err)
         r   == CASE k = 0 -> [hk |-> NoHandler, inv |-> Idle]
                  [] k # 0 /\ g[s].op = "Get" -> OnGet(h[k], g[s].item, err, FALSE)
                  [] k # 0 /\ g[s].op = "GetFile" ->
                       [hk |-> AfterGetFile(h[k], err, FALSE), inv |-> Idle]
                  [] k # 0 /\ g[s].op = "Delete" ->
                       [hk |-> OnDelete(h[k], err, FALSE), inv |-> Idle]
                  [] k # 0 /\ g[s].op = "Put" ->
                       [hk |-> AfterPutCall(h[k], IF err = NilErr THEN g[s].id ELSE 0,
                                            err, FALSE),
                        inv |-> Idle]
     IN  /\ k # 0 /\ g[s].op = "Put" => Len(h[k].put.ch) < producers
         /\ fdCli' = IF g[s].op = "GetFile" /\ g[s].err = "nil"
                     THEN Append(fdCli, UnixRights(g[s].f)) ELSE fdCli
         /\ h' = IF k = 0 THEN h ELSE [h EXCEPT ![k] = r.hk]
         /\ g' = [g EXCEPT ![s] = r.inv]
         /\ owner' = [owner EXCEPT ![s] = IF r.inv = Idle THEN 0 ELSE k]
         /\ pipe' = GcPipes(pipe, g', h', fdSrv)
         /\ inode' = GcInodes(inode, dir, g', h', fdCli')
  /\ UNCHANGED <<now, index, dir, sw, fdSrv, histVars, countVars, proc>>

\* StoreRpcClient.call: case <-timeout.Done(): return ctx.Err(). The server
\* goes on with the call; its reply will find nobody.
Timeout(k, s, t) ==
  /\ timeouts < MaxTimeouts
  /\ owner[s] = k
  /\ timeouts' = timeouts + 1
  /\ LET r == CASE h[k].pc = "get" -> OnGet(h[k], NoItem, CtxErr, TRUE)
                [] h[k].pc = "getfile" ->
                     [hk |-> AfterGetFile(h[k], CtxErr, TRUE), inv |-> Idle]
                [] h[k].pc \in {"burn", "del"} ->
                     [hk |-> OnDelete(h[k], CtxErr, TRUE), inv |-> Idle]
                [] OTHER ->
                     [hk |-> AfterPutCall(h[k], 0, CtxErr, TRUE), inv |-> Idle]
     IN  /\ h[k].pc \notin {"get", "getfile", "burn", "del"} => Len(h[k].put.ch) < producers
         /\ h' = [h EXCEPT ![k] = r.hk]
         /\ IF r.inv = Idle
            THEN /\ t = s
                 /\ owner' = [owner EXCEPT ![s] = 0]
                 /\ UNCHANGED g
            ELSE /\ IsFirstIdle(t)
                 /\ owner' = [owner EXCEPT ![s] = 0, ![t] = k]
                 /\ g' = [g EXCEPT ![t] = r.inv]
  /\ UNCHANGED <<now, index, dir, inode, pipe, sw, fdSrv, fdCli, histVars, calls, reqs, uploads, proc>>

\* ---------------------------------------------------------------- SpecRpc
Lifetimes == 0..MaxLifetime

\* Uploads here are not burn-after-reading: those are uploaded in SpecPut and
\* fetched in SpecServe.
Webserver ==
  \/ \E k \in Handlers, l \in Lifetimes, burn \in {FALSE}, b \in 1..(uploads + 1) :
       uploads < MaxUploads /\ StartUpload(k, l, burn, b)
  \/ \E k \in Handlers : PutCopyTask(k)
  \/ \E k \in Handlers : PutSendTask(k)
  \/ \E k \in Handlers, s \in Slots : PutCallTask(k, s)
  \/ \E k \in Handlers : PutSelect(k)
  \/ \E k \in Handlers, s \in Slots, id \in Ids : StartFetch(k, s, id, NoIms)
  \/ \E k \in Handlers, s \in Slots : Serve(k, s)
  \/ \E k \in Handlers, s, t \in Slots : Timeout(k, s, t)

RpcServer ==
  \E s \in Slots :
    \/ SrvRecvFd(s)
    \/ SrvReturn(s)

NextRpc ==
  \/ Webserver
  \/ RpcServer
  \/ StoreStep
  \/ Sweeper
  \/ Tick

SpecRpc == Init /\ [][NextRpc]_vars

\* -------------------------------------------------------------- SpecServe
\* The store was opened on a directory that holds one Item, index entry and
\* blob.
Opened(item) ==
      /\ now = 0
      /\ index = [i \in Ids |-> IF i = 1 THEN item ELSE NoItem]
      /\ dir = [i \in Ids |-> IF i = 1 THEN 1 ELSE 0]
      /\ inode = [n \in Inodes |-> IF n = 1 THEN [body |-> 1, len |-> Size(1)] ELSE EmptyFile]
      /\ pipe = [p \in Pipes |-> NoPipe]
      /\ g = [s \in Slots |-> Idle]
      /\ sw = SwIdle
      /\ h = [k \in Handlers |-> NoHandler]
      /\ owner = [s \in Slots |-> 0]
      /\ fdSrv = <<>>
      /\ fdCli = <<>>
      /\ deleted = {}
      /\ liveRet = {1}
      /\ everRet = {1}
      /\ stored = [i \in Ids |-> IF i = 1 THEN [m |-> item, body |-> 1, seq |-> 0] ELSE NoRec]
      /\ calls = 0
      /\ reqs = 0
      /\ uploads = 0
      /\ timeouts = 0
      /\ proc = Running

\* Fetch and deletion requests come in. Expired Items are removed by Get; the
\* sweeper's part is in Spec and SpecRpc.
InitServe ==
  \E e \in Times, burn \in BOOLEAN :
    Opened([ID |-> 1, Created |-> 0, Expires |-> e, Burn |-> burn, Key |-> DeletionKey])

NextServe ==
  \/ \E k \in Handlers, s \in Slots, id \in Ids : StartFetch(k, s, id, NoIms)
  \/ \E k \in Handlers, s \in Slots, id \in Ids, key \in Keys \cup {<<>>} :
       StartDeletion(k, s, id, key)
  \/ \E k \in Handlers, s \in Slots : Serve(k, s)
  \/ \E k \in Handlers, s, t \in Slots : Timeout(k, s, t)
  \/ \E s \in Slots : SrvReturn(s)
  \/ \E s \in Slots : Get(s)
  \/ \E s \in Slots : DeleteIndex(s)
  \/ \E s \in Slots : DeleteFile(s)
  \/ \E s \in Slots : GetFile(s)
  \/ Tick

SpecServe == InitServe /\ [][NextServe]_vars

\* -------------------------------------------------------------- SpecCrash
\* The store process is ended at some point - SIGKILL, power loss - and
\* started again: the goroutines and their descriptors are gone, what the
\* index and the storage directory held is found by NewStore as it was, and
\* cleanupExired starts anew.
Crash ==
  /\ ~proc.kid["store"].gotKill
  /\ proc' = [proc EXCEPT !.kid["store"].gotKill = TRUE]
  /\ g' = [s \in Slots |-> Idle]
  /\ sw' = SwIdle
  /\ pipe' = [p \in Pipes |-> NoPipe]
  /\ inode' = GcInodes(inode, dir, g', h, fdCli)
  /\ UNCHANGED <<now, index, dir, rpcVars, histVars, countVars>>

NextCrash ==
  \/ Next
  \/ Crash

SpecCrash == Init /\ [][NextCrash]_vars

\* -------------------------------------------------------------- SpecReuse
\* One stored Item that is about to expire; deletion requests for it, an
\* upload, and the sweeper.
InitReuse ==
  Opened([ID |-> 1, Created |-> 0, Expires |-> 0, Burn |-> FALSE, Key |-> DeletionKey])

NextReuse ==
  \/ \E k \in Handlers, s \in Slots : StartDeletion(k, s, 1, DeletionKey)
  \/ \E k \in Handlers :
       uploads < MaxUploads /\ StartUpload(k, MaxLifetime, FALSE, NumBodies)
  \/ \E k \in Handlers : PutCopyTask(k)
  \/ \E k \in Handlers : PutSendTask(k)
  \/ \E k \in Handlers, s \in Slots : PutCallTask(k, s)
  \/ \E k \in Handlers : PutSelect(k)
  \/ RpcServer
  \/ \E s \in Slots : Get(s)
  \/ \E s \in Slots : DeleteIndex(s)
  \/ \E s \in Slots : DeleteFile(s)
  \/ \E s \in Slots : PutCreateID(s)
  \/ \E s \in Slots : PutInsert(s)
  \/ \E s \in Slots : PutCreate(s)
  \/ \E s \in Slots : PutCopy(s)
  \/ \E s \in Slots : PutClose(s)
  \/ Sweeper
  \/ Tick

SpecReuse == InitReuse /\ [][NextReuse]_vars

\* --------------------------------------------------------------- SpecCond
\* Conditional GETs of one stored Item: its creation and expiry times and the
\* header's time are some seconds apart.
MaxIms == 4
ImsTimes == 0..MaxIms

InitCond ==
  \E burn \in BOOLEAN :
    Opened([ID |-> 1, Created |-> 1, Expires |-> MaxIms - 1, Burn |-> burn,
            Key |-> DeletionKey])

NextCond ==
  \/ \E k \in Handlers, s \in Slots, id \in Ids, ims \in ImsTimes \cup {NoIms} :
       StartFetch(k, s, id, ims)
  \/ \E k \in Handlers, s \in Slots : Serve(k, s)
  \/ \E s \in Slots : SrvReturn(s)
  \/ \E s \in Slots : Get(s)
  \/ \E s \in Slots : DeleteIndex(s)
  \/ \E s \in Slots : DeleteFile(s)
  \/ \E s \in Slots : GetFile(s)
  \/ Tick

SpecCond == InitCond /\ [][NextCond]_vars

\* ----------------------------------------------------------------- SpecFd
\* The store holds an Item with its blob under every id, the blob of id i
\* being body i, neither expiring nor burn-after-reading; fetches come in.
InitFd ==
  /\ now = 0
  /\ index = [i \in Ids |-> [ID |-> i, Created |-> 0, Expires |-> MaxTime + 1,
                             Burn |-> FALSE, Key |-> DeletionKey]]
  /\ dir = [i \in Ids |-> i]
  /\ inode = [n \in Inodes |-> IF n \in Ids THEN [body |-> n, len |-> Size(n)]
                                ELSE EmptyFile]
  /\ pipe = [p \in Pipes |-> NoPipe]
  /\ g = [s \in Slots |-> Idle]
  /\ sw = SwIdle
  /\ h = [k \in Handlers |-> NoHandler]
  /\ owner = [s \in Slots |-> 0]
  /\ fdSrv = <<>>
  /\ fdCli = <<>>
  /\ deleted = {}
  /\ liveRet = Ids
  /\ everRet = Ids
  /\ stored = [i \in Ids |-> [m |-> index[i], body |-> i, seq |-> 0]]
  /\ calls = 0
  /\ reqs = 0
  /\ uploads = 0
  /\ timeouts = 0
  /\ proc = Running

NextFd ==
  \/ \E k \in Handlers, s \in Slots, id \in Ids : StartFetch(k, s, id, NoIms)
  \/ \E k \in Handlers, s \in Slots : Serve(k, s)
  \/ \E k \in Handlers, s, t \in Slots : Timeout(k, s, t)
  \/ \E s \in Slots : SrvReturn(s)
  \/ \E s \in Slots : Get(s)
  \/ \E s \in Slots : GetFile(s)

SpecFd == InitFd /\ [][NextFd]_vars

\* --------------------------------------------------------------- SpecFull
\* The Store called directly, starting with an Item under every id the
\* generator can produce.
SpecFull == InitFd /\ [][Next]_vars

\* --------------------------------------------------------------- SpecWire
\* The store's end of the FD socket with a peer that writes any message: none,
\* one or two control messages with none, one or two descriptors of a pipe
\* that holds a whole body.
Messages(p) == {<<>>, <<<<>>>>, UnixRights(p), <<<<p, p>>>>, <<<<p>>, <<p>>>>}

\* The peer writes a message to the FD socket.
WireSend(msg, b) ==
  /\ reqs < MaxRequests
  /\ reqs' = reqs + 1
  /\ msg \in Messages(FreePipe)
  /\ fdSrv' = Append(fdSrv, msg)
  /\ pipe' = IF FreePipe \in FdsIn(fdSrv') THEN [pipe EXCEPT ![FreePipe] = FullReader(b)]
             ELSE pipe
  /\ UNCHANGED <<now, index, dir, inode, g, sw, h, owner, fdCli, histVars, calls, uploads, timeouts, proc>>

\* The peer's rpc call Put arrives: net/rpc starts StoreRpcServer.Put.
WirePut(s, m) ==
  /\ IsFirstIdle(s)
  /\ calls < MaxCalls
  /\ calls' = calls + 1
  /\ g' = [g EXCEPT ![s] = Invocation("Put", 0, m)]
  /\ UNCHANGED <<now, index, dir, inode, pipe, sw, rpcVars, histVars, reqs, uploads, timeouts, proc>>

NextWire ==
  \/ \E p \in Pipes, b \in Bodies : \E msg \in Messages(p) : WireSend(msg, b)
  \/ \E s \in Slots, m \in Metas : WirePut(s, m)
  \/ \E s \in Slots : SrvRecvFd(s)
  \/ \E s \in Slots : PutCreateID(s)
  \/ \E s \in Slots : PutInsert(s)
  \/ \E s \in Slots : PutCreate(s)
  \/ \E s \in Slots : PutCopy(s)
  \/ \E s \in Slots : PutClose(s)
  \/ \E s \in Slots : SrvReturn(s)

SpecWire == Init /\ [][NextWire]_vars

\* ---------------------------------------------------------------- SpecPut
\* One upload through StoreRpcClient.Put and the store's side of it. The Go
\* scheduler runs every runnable goroutine of the client and its timers fire;
\* the store is another process, of which nothing is assumed.
NextPut ==
  \/ \E k \in Handlers, l \in Lifetimes, burn \in BOOLEAN, b \in Bodies :
       uploads < MaxUploads /\ StartUpload(k, l, burn, b)
  \/ \E k \in Handlers : PutCopyTask(k)
  \/ \E k \in Handlers : PutSendTask(k)
  \/ \E k \in Handlers, s \in Slots : PutCallTask(k, s)
  \/ \E k \in Handlers : PutSelect(k)
  \/ \E k \in Handlers, s, t \in Slots : Timeout(k, s, t)
  \/ \E s \in Slots : SrvRecvFd(s)
  \/ \E s \in Slots : SrvReturn(s)
  \/ \E s \in Slots : PutCreateID(s)
  \/ \E s \in Slots : PutInsert(s)
  \/ \E s \in Slots : PutCreate(s)
  \/ \E s \in Slots : PutCopy(s)
  \/ \E s \in Slots : PutClose(s)

ClientFair ==
  \A k \in Handlers :
    /\ WF_vars(PutCopyTask(k))
    /\ WF_vars(PutSendTask(k))
    /\ WF_vars(\E s \in Slots : PutCallTask(k, s))
    /\ WF_vars(PutSelect(k))
    /\ WF_vars(\E s, t \in Slots : Timeout(k, s, t))

SpecPut == Init /\ [][NextPut]_vars /\ ClientFair

\* --------------------------------------------------------------- SpecPair
\* Two uploads, of body 1 and of body 2, through Put on both sides; no call
\* times out.
NextPair ==
  \/ \E k \in Handlers :
       uploads < NumBodies /\ StartUpload(k, MaxLifetime, FALSE, uploads + 1)
  \/ \E k \in Handlers : PutCopyTask(k)
  \/ \E k \in Handlers : PutSendTask(k)
  \/ \E k \in Handlers, s \in Slots : PutCallTask(k, s)
  \/ \E k \in Handlers : PutSelect(k)
  \/ \E s \in Slots : SrvRecvFd(s)
  \/ \E s \in Slots : SrvReturn(s)
  \/ \E s \in Slots : PutCreateID(s)
  \/ \E s \in Slots : PutInsert(s)
  \/ \E s \in Slots : PutCreate(s)
  \/ \E s \in Slots : PutCopy(s)
  \/ \E s \in Slots : PutClose(s)

SpecPair == Init /\ [][NextPair]_vars

\* ------------------------------------------------------------- SpecUpload
\* One upload request with any form, through handleUpload and, if the form is
\* accepted, through Put on both sides.
NextUpload ==
  \/ \E k \in Handlers, req \in Requests, burn \in BOOLEAN :
       reqs = 0 /\ handleUpload(k, req, burn)
  \/ \E k \in Handlers : PutCopyTask(k)
  \/ \E k \in Handlers : PutSendTask(k)
  \/ \E k \in Handlers, s \in Slots : PutCallTask(k, s)
  \/ \E k \in Handlers : PutSelect(k)
  \/ \E k \in Handlers, s, t \in Slots : Timeout(k, s, t)
  \/ \E s \in Slots : SrvRecvFd(s)
  \/ \E s \in Slots : SrvReturn(s)
  \/ \E s \in Slots : PutCreateID(s)
  \/ \E s \in Slots : PutInsert(s)
  \/ \E s \in Slots : PutCreate(s)
  \/ \E s \in Slots : PutCopy(s)
  \/ \E s \in Slots : PutClose(s)

SpecUpload == Init /\ [][NextUpload]_vars

\* ================================================================ claims
\* ---------------------------------------------------------------------- C1
\* C1: a fetch of id that arrives after an upload returned id, while the Item
\* is neither deleted nor expired, gets from Get the uploaded Item with its ID
\* set to id and no error, gets a file from GetFile, and streams exactly the
\* uploaded body unless the peer resets the connection.
C1_RoundTrip ==
  \A k \in Handlers :
    h[k].kind = "fetch" /\ h[k].want # NoRec /\ stored[h[k].id] = h[k].want =>
      /\ h[k].pc # "get" => h[k].item = h[k].want.m
      /\ h[k].pc = "idle" => h[k].resp = 200
      /\ h[k].resp = 200 /\ h[k].complete =>
           h[k].served = [body |-> h[k].want.body, len |-> Size(h[k].want.body)]

C3_DeleteIdempotent ==
  \A s \in Slots : g[s].op = "Delete" /\ g[s].pc = "ret" => g[s].err = "nil"

\* ---------------------------------------------------------------------- C4
\* C4: a Get(id) that found an Item with Expires < now returns ErrNotFound, and
\* when it returns neither the index entry nor the blob of id is left.
C4_ExpiredGetRemoves ==
  \A s \in Slots :
    g[s].op = "Get" /\ g[s].lazy /\ g[s].pc = "ret" =>
      g[s].err = "ErrNotFound" /\ index[g[s].id] = NoItem /\ dir[g[s].id] = 0

C6_ExpiredNeverServed ==
  \A k \in Handlers :
    h[k].kind = "fetch" /\ h[k].resp = 200 /\ h[k].item # NoItem =>
      ~Expired(h[k].item, h[k].servedAt)

\* ---------------------------------------------------------------------- C7
\* No Put and no Delete (called, inside Get, or by the sweeper) is in progress.
Quiescent ==
  /\ \A s \in Slots : g[s].op \notin {"Put", "Delete"} /\ g[s].pc \notin {"del_idx", "del_file"}
  /\ sw.pc = "wait"

\* C7: whenever no Put or Delete is in progress, the index holds an Item for
\* id exactly if the storage directory holds a file named id.
C7_IndexAndBlobsAgree ==
  Quiescent => \A id \in Ids : (index[id] # NoItem) <=> (dir[id] # 0)

\* ---------------------------------------------------------------------- C8
\* C8: at most one call of the client is in flight at any time - sent and
\* its reply not yet taken.
C8_OneCallInFlight ==
  Cardinality({s \in Slots : owner[s] # 0}) <= 1

\* ---------------------------------------------------------------------- C9
\* C9: a client method whose call ran into the timeout returns an error that
\* is not nil.
C9_TimeoutIsError ==
  \A k \in Handlers :
    h[k].timedOut /\ (h[k].kind = "upload" => h[k].pc = "idle") => h[k].err # NilErr

\* --------------------------------------------------------------------- C10
\* C10: when the client's Put returns without error, the body was copied into
\* the pipe and the write end closed, the read end was sent over the FD
\* socket, and the Put call returned an id.
C10_PutNeedsAllThree ==
  \A k \in Handlers :
    h[k].kind = "upload" /\ h[k].pc = "idle" /\ h[k].err = NilErr =>
      h[k].put.copyOk /\ h[k].put.sendOk /\ h[k].put.callOk /\ h[k].id # 0

\* --------------------------------------------------------------------- C11
\* C11: a client Put that was started returns to handleUpload, whatever the
\* store does with the pipe and the call (the time bound of 3 s left aside).
C11_PutReturns ==
  \A k \in Handlers : (h[k].pc = "put") ~> (h[k].pc = "idle")

\* --------------------------------------------------------------------- C12
\* C12: when Store.Get has returned ErrNotFound and the client's call takes
\* the reply, StoreRpcClient.Get returns ErrNotFound itself and the handler -
\* handleRequest or handleDeletion - answers 404 and ends.
C12_NotFoundIs404 ==
  [][\A s \in Slots :
       SrvReturn(s) /\ g[s].op = "Get" /\ g[s].err = "ErrNotFound" /\ owner[s] # 0 =>
         /\ h'[owner[s]].err = ErrNotFound
         /\ h'[owner[s]].resp = 404
         /\ h'[owner[s]].pc = "idle"]_vars

\* A fetch and a deletion request have both been answered 404 for a Get that
\* returned ErrNotFound.
C12_Witness ==
  \E j, k \in Handlers :
    /\ h[j].kind = "fetch" /\ h[j].resp = 404 /\ h[j].err = ErrNotFound
    /\ h[k].kind = "delete" /\ h[k].resp = 404 /\ h[k].err = ErrNotFound

\* --------------------------------------------------------------------- C13
\* C13: a fetch of id that comes after a fetch of id has ended which answered
\* 200 with the whole body of a burn-after-reading Item is answered 404.
C13_SecondGetIs404 ==
  \A k \in Handlers :
    h[k].kind = "fetch" /\ h[k].burnt /\ h[k].pc = "idle" => h[k].resp = 404

\* --------------------------------------------------------------------- C14
\* C14: while the Delete call of a fetch is in flight, the fetch has sent its
\* 200 and its stream has ended: the call is not there before the body was
\* streamed.
C14_DeleteAfterStream ==
  \A s \in Slots :
    g[s].op = "Delete" /\ owner[s] # 0 /\ h[owner[s]].kind = "fetch" =>
      /\ h[owner[s]].pc = "burn"
      /\ h[owner[s]].resp = 200
      /\ h[owner[s]].item.Burn /\ g[s].id = h[owner[s]].item.ID

\* The Delete of a fetch is in flight after the whole body was streamed.
C14_Witness ==
  \E s \in Slots :
    /\ g[s].op = "Delete" /\ owner[s] # 0 /\ h[owner[s]].kind = "fetch"
    /\ h[owner[s]].complete /\ h[owner[s]].served.len = Size(1)

\* --------------------------------------------------------------------- C15
\* C15: when handleRequestServe has streamed the blob of a burn-after-reading
\* Item - to its end or not - the handler calls Delete for the Item's id.
C15_BurnEvenIfAborted ==
  [][\A k \in Handlers, s \in Slots :
       Serve(k, s) /\ h[k].item.Burn =>
         /\ h'[k].pc = "burn"
         /\ g'[s].op = "Delete" /\ g'[s].pc = "del_idx" /\ g'[s].id = h[k].item.ID
         /\ owner'[s] = k]_vars

\* The Delete of a fetch is in flight after a stream that the peer cut short.
C15_Witness ==
  \E s \in Slots :
    /\ g[s].op = "Delete" /\ owner[s] # 0 /\ h[owner[s]].kind = "fetch"
    /\ h[owner[s]].resp = 200 /\ ~h[owner[s]].complete

\* --------------------------------------------------------------------- C16
\* C16: when two fetches of one id have both got the burn-after-reading Item
\* from Get, both answered 200 and both ended, neither the index entry nor
\* the blob of the id is left.
C16_AbsentAfterBoth ==
  \A j, k \in Handlers :
    /\ j # k /\ h[j].kind = "fetch" /\ h[k].kind = "fetch" /\ h[j].id = h[k].id
    /\ h[j].item.Burn /\ h[k].item.Burn
    /\ h[j].resp = 200 /\ h[k].resp = 200
    /\ h[j].pc = "idle" /\ h[k].pc = "idle"
    => index[h[j].id] = NoItem /\ dir[h[j].id] = 0

\* --------------------------------------------------------------------- C17
\* The sweeper's deleteExpired and the Delete inside the Get of slot s are
\* both at work on the same expired id, of which no Put is writing and whose
\* blob is still there.
BothDeleting(s) ==
  /\ g[s].op = "Get" /\ g[s].lazy /\ g[s].pc \in {"del_idx", "del_file"}
  /\ sw.pc \in {"del_idx", "del_file"} /\ Head(sw.items) = g[s].id
  /\ \A t \in Slots : g[t].op # "Put"
  /\ dir[g[s].id] # 0

\* C17: while the sweeper and a Get are both deleting the same expired id,
\* no statement of either Delete fails: the Get's Delete goes on to return
\* ErrNotFound, and the sweeper's goes on with its sweep.
C17_SweeperAndGetAgree ==
  [][\A s \in Slots : BothDeleting(s) =>
       /\ DeleteIndex(s) => g'[s].pc = "del_file"
       /\ DeleteFile(s) => g'[s].err = "ErrNotFound"
       /\ SweepDeleteIndex => sw'.pc = "del_file"
       /\ SweepDeleteFile => dir[g[s].id] # 0 /\ dir'[g[s].id] = 0]_vars

\* --------------------------------------------------------------------- C18
\* C18: the sweep that finds an expired Item removes it. When a sweep ends,
\* and no Put and no other Delete is in progress, no Item of its list is left
\* expired in the index, and no blob of such an id is left without an entry.
\* (A sweep starts every 60 s, so that this is removal within one interval.)
C18_SweepRemovesExpired ==
  [][/\ sw.pc # "wait" /\ sw'.pc = "wait"
     /\ \A s \in Slots : g'[s].op \notin {"Put", "Delete"}
                         /\ g'[s].pc \notin {"del_idx", "del_file"}
     => \A i \in Range(sw.items) :
          /\ index'[i] = NoItem \/ ~Expired(index'[i], now')
          /\ dir'[i] = 0 \/ index'[i] # NoItem]_vars

\* --------------------------------------------------------------------- C19
\* C19 as stated: a deletion request for an Item that is in the index, with a
\* key - not the empty one - other than the Item's deletion key, is answered
\* 403, and when it has ended the index entry and the blob are as they were
\* (its Get call not having timed out).
C19_WrongKeyIs403 ==
  \A k \in Handlers :
    /\ h[k].kind = "delete" /\ h[k].pc = "idle" /\ h[k].key # <<>> /\ ~h[k].timedOut
    /\ h[k].had # NoItem /\ h[k].key # h[k].had.Key
    => h[k].resp = 403 /\ index[h[k].id] = h[k].had /\ dir[h[k].id] # 0

\* C19, amended: a deletion handler calls Delete for an Item only with the
\* deletion key of the Item that Get returned to it; with another key it is
\* answered 403 whenever Get returned the Item, and the only statements run
\* for it that change the index or the storage directory are those of the
\* Delete inside Get, for an Item that has expired.
C19_DeleteNeedsKey ==
  /\ [](\A s \in Slots :
         g[s].op = "Delete" /\ g[s].id # 0 /\ owner[s] # 0
         /\ h[owner[s]].kind = "delete" =>
           /\ h[owner[s]].item.ID = g[s].id
           /\ h[owner[s]].key = h[owner[s]].item.Key
           /\ h[owner[s]].key = DeletionKey)
  /\ [](\A k \in Handlers :
         /\ h[k].kind = "delete" /\ h[k].pc = "idle"
         /\ h[k].item # NoItem /\ h[k].key # h[k].item.Key
         => h[k].resp = 403)
  /\ [][\A s \in Slots :
         /\ owner[s] # 0 /\ h[owner[s]].kind = "delete"
         /\ h[owner[s]].key # DeletionKey
         /\ DeleteIndex(s) \/ DeleteFile(s)
         /\ index' # index \/ dir' # dir
         => g[s].op = "Get" /\ g[s].lazy /\ Expired(g[s].item, now)]_vars

\* A deletion request with a wrong key was answered 403 and the Item is as it
\* was, and one with the Item's key has its Delete in flight.
C19_Witness ==
  \E j, k \in Handlers :
    /\ h[j].kind = "delete" /\ h[j].pc = "idle" /\ h[j].resp = 403
    /\ h[j].key \in Keys \ {DeletionKey}
    /\ h[j].had # NoItem /\ index[h[j].id] = h[j].had /\ dir[h[j].id] # 0
    /\ h[k].kind = "delete" /\ h[k].pc = "del" /\ h[k].key = DeletionKey

\* --------------------------------------------------------------------- C20
\* C20: two deletion requests with wrong keys of the length of the Item's
\* deletion key cost the key check the same work, wherever the keys differ
\* from the deletion key.
C20_CheckIsConstantTime ==
  \A j, k \in Handlers :
    /\ h[j].kind = "delete" /\ h[k].kind = "delete"
    /\ h[j].resp = 403 /\ h[k].resp = 403
    /\ h[j].item # NoItem /\ h[k].item = h[j].item
    /\ Len(h[j].key) = Len(h[j].item.Key) /\ Len(h[k].key) = Len(h[k].item.Key)
    => h[j].work = h[k].work

\* C21: a fetch that found the Item is answered 304 exactly when the time t of
\* its If-Modified-Since header lies strictly between the Item's creation and
\* expiry times; with t at the creation time, outside the interval or without
\* a header that parses, the blob is opened and served with 200 (400 if the
\* blob cannot be opened).
C21_NotModifiedIffBetween ==
  \A k \in Handlers :
    h[k].kind = "fetch" /\ h[k].item.ID # 0 /\ h[k].resp # 0 =>
      /\ h[k].resp = 304 <=>
            /\ h[k].ims # NoIms
            /\ h[k].item.Created < h[k].ims /\ h[k].ims < h[k].item.Expires
      /\ h[k].resp # 304 => \/ h[k].resp = 200
                            \/ h[k].resp = 400 /\ h[k].err # NilErr

C21_Witness ==
  \E k, j \in Handlers :
    /\ h[k].kind = "fetch" /\ h[k].resp = 304 /\ h[k].item.ID # 0
    /\ h[j].kind = "fetch" /\ h[j].resp = 200 /\ h[j].item.ID # 0
    /\ h[j].ims = h[j].item.Created

\* An upload the handler has turned away, and one it has handed to Put.
Rejected(k) == h[k].kind = "upload" /\ h[k].put.p = 0 /\ h[k].resp # 0

Accepted(k) == h[k].kind = "upload" /\ h[k].put.p # 0

\* The checks of NewItemFromRequest other than the one on the named part of
\* the form have nothing to object to.
SizeFits(req) == 0 < req.size /\ req.size <= MaxSize

TimeFits(req) ==
  \/ req.time = NoField
  \/ req.time.n >= 0 /\ DurMul(req.time.n, durations(req.time.unit)) <= MaxLifetime

\* No call has reached the store and nothing is in it.
StoreUntouched ==
  /\ index = [i \in Ids |-> NoItem]
  /\ dir = [i \in Ids |-> 0]
  /\ g = [s \in Slots |-> Idle]
  /\ fdSrv = <<>>
  /\ everRet = {}

\* C22: an upload whose Content-Type is in mimeDrop starts no Put - no id is
\* made, no index entry and no blob - and, if its size and time field are in
\* order, is answered 400.
C22_DroppedMimeLeavesStore ==
  \A k \in Handlers :
    h[k].kind = "upload" /\ h[k].req.mime \in mimeDrop =>
      /\ Rejected(k) /\ h[k].put = NoPut /\ h[k].pc = "idle"
      /\ StoreUntouched
      /\ SizeFits(h[k].req) /\ TimeFits(h[k].req) => h[k].resp = 400

C22_Witness ==
  \E k \in Handlers :
    /\ h[k].kind = "upload" /\ h[k].req.mime \in mimeDrop
    /\ SizeFits(h[k].req) /\ TimeFits(h[k].req) /\ h[k].resp = 400

C24_LifetimeLimits ==
  \A k \in Handlers :
    h[k].kind = "upload" =>
      /\ Accepted(k) =>
            /\ h[k].item.Expires > h[k].item.Created
            /\ h[k].item.Expires - h[k].item.Created <= MaxLifetime
            /\ h[k].req.time = NoField =>
                  h[k].item.Expires - h[k].item.Created = MaxLifetime
      /\ (/\ h[k].req.time = [n |-> MaxLifetime, unit |-> "s"] /\ SizeFits(h[k].req)
          /\ h[k].req.mime \notin mimeDrop \cup {""}) => Accepted(k)
      /\ (/\ h[k].req.time.n > 0
          /\ h[k].req.time.n * durations(h[k].req.time.unit) > MaxLifetime
          /\ SizeFits(h[k].req) /\ h[k].req.mime # "") =>
            Rejected(k) /\ h[k].resp = 406

\* C25: when the supervisor's shutdown loop has ended, SIGINT was sent to
\* both children (unless the child had been waited for before), every child
\* that was still running when its second had passed was sent SIGKILL, and
\* both children have terminated.
C25_BothTerminatedAtEnd ==
  proc.mon.pc = "done" =>
    \A c \in {"store", "webserver"} :
      /\ proc.kid[c].gotInt \/ proc.kid[c].waited
      /\ ~Alive(c)

\* The parts of C25 on the signals alone: SIGINT to both, SIGKILL to every
\* child that the supervisor has not seen end.
C25_SignalsSent ==
  proc.mon.pc = "done" =>
    \A c \in {"store", "webserver"} :
      /\ proc.kid[c].gotInt \/ proc.kid[c].waited
      /\ proc.kid[c].gotKill \/ proc.kid[c].waited

BlobComplete(i) ==
  /\ dir[i] # 0
  /\ inode[dir[i]].body # 0
  /\ inode[dir[i]].len = Size(inode[dir[i]].body)

\* C27: Put writes the whole blob before it inserts the index entry, so
\* every id that has an index entry has its complete blob.
C27_BlobBeforeIndex ==
  \A i \in Ids : index[i] # NoItem => BlobComplete(i)

\* C28: the descriptor that the client's GetFile(id) returns is the one of
\* the blob stored under id: what a fetch reads from it is the body of the
\* Item it asked GetFile for.
C28_DescriptorOfSameId ==
  \A k \in Handlers :
    h[k].kind = "fetch" /\ h[k].resp = 200 /\ h[k].item.ID # 0 =>
      h[k].served.body = stored[h[k].item.ID].body

\* C29: the pipe read end that the store's Put handler receives is the one
\* made by the client Put call that sent the Item the handler was called
\* with: the handler of a call reads from the pipe of the caller.
C29_PipeOfSameUpload ==
  \A s \in Slots :
    g[s].op = "Put" /\ g[s].src # 0 /\ owner[s] # 0 => g[s].src = h[owner[s]].put.p

\* C30: when an upload was answered with an error and its Put has ended in
\* the store as well, the index holds no entry made by that Put - here, with
\* one upload, no entry at all.
C30_FailedUploadLeavesNothing ==
  \A k \in Handlers :
    (/\ h[k].kind = "upload" /\ h[k].pc = "idle" /\ h[k].resp # 200
     /\ \A s \in Slots : g[s] = Idle) => Indexed = {}

\* C31: a Put that has failed after it began to store leaves no index entry
\* behind - at most a blob, which a sweep then removes.
C31_FailedPutLeavesBlobOnly ==
  \A s \in Slots :
    g[s].op = "Put" /\ g[s].pc = "ret" /\ g[s].err # "nil" /\ g[s].mine =>
      index[g[s].id] = NoItem

\* The ids with an index entry and no blob, or a blob and no index entry.
Orphans == {i \in Ids : (index[i] # NoItem) # (dir[i] # 0)}

\* C32: the crash of a store in which one Put or Delete was under way, and
\* nothing else was out of order, leaves at most one orphan.
C32_CrashLeavesOneOrphan ==
  [][(/\ Crash
      /\ Cardinality({s \in Slots : g[s] # Idle}) <= 1
      /\ \A i \in Orphans : \E s \in Slots : g[s].id = i)
     => Cardinality(Orphans') <= 1]_vars

\* C32: ... and after the crash no statement of a sweep fails, whichever
\* orphan it meets.
C32_SweepCopesWithOrphans ==
  [][proc.kid["store"].gotKill /\ (\A s \in Slots : g[s] = Idle) =>
       /\ SweepDeleteIndex => bhDelete(Head(sw.items)) = "nil"
       /\ SweepDeleteFile => osRemove(Head(sw.items)) = "nil"]_vars

\* C33: a fetch calls Delete for a burn-after-reading Item only after a
\* response that sent the body: a fetch answered 304 calls no Delete and the
\* Item stays.
C33_NotModifiedDoesNotBurn ==
  /\ \A k \in Handlers : h[k].kind = "fetch" /\ h[k].resp = 304 => h[k].pc = "idle"
  /\ \A s \in Slots :
       g[s].op = "Delete" /\ owner[s] # 0 /\ h[owner[s]].kind = "fetch" =>
         h[owner[s]].resp = 200 /\ h[owner[s]].served # EmptyFile

\* C34: the Delete that a fetch (burn-after-reading) or a deletion request
\* calls removes the index entry of the Item that the handler's Get returned,
\* and of no other Item that was stored under the id since.
C34_DeleteRemovesWhatGetReturned ==
  [][\A s \in Slots :
       (/\ DeleteIndex(s) /\ g[s].op = "Delete" /\ owner[s] # 0
        /\ index'[g[s].id] # index[g[s].id])
       => index[g[s].id] = h[owner[s]].item]_vars

\* C35: a sweep goes through the whole list of the Items it found expired:
\* it ends only at the last Item of the list, whether or not the Delete of
\* an earlier one has failed.
C35_SweepGoesThroughList ==
  [][sw.pc # "wait" /\ sw'.pc = "wait" => Len(sw.items) = 1]_vars

\* C36: the KV store is closed only after the sweeper has stopped, and from
\* then on no sweep queries the index or deletes from it: Store.Close closes
\* stopSyn, waits for stopAck, and closes the KV store last.
C36_CloseJoinsSweeper ==
  /\ [](sw.kv = "closed" => sw.pc = "stopped" /\ sw.ack)
  /\ [][sw.kv = "closed" => ~Sweeper]_vars

\* Close was called in the middle of a sweep, has waited for it, and has
\* closed the KV store.
C36_Witness ==
  /\ sw.kv = "closed"
  /\ sw.late
  /\ sw.pc = "stopped"
  /\ deleted # {}

\* C37: createID checks its candidates against the index and gives up after
\* MaxAttempts of them: while every id is in use a Put ends in createID with
\* an error, a Put ends there only when some id is in use, and a Put that
\* ended there has written neither an index entry nor a blob.
C37_NoFreeIdNothingCreated ==
  /\ [][\A s \in Slots :
          g[s].op = "Put" /\ g[s].pc = "createID" /\ g'[s].pc # "createID"
          => /\ Indexed = Ids => g'[s].pc = "ret" /\ g'[s].err = "noFreeID"
             /\ g'[s].pc = "ret" => /\ g'[s].err = "noFreeID"
                                    /\ Indexed # {}
                                    /\ index' = index /\ dir' = dir /\ inode' = inode
             /\ g'[s].pc # "ret" => g'[s].id \notin Indexed]_vars
  /\ [](\A s \in Slots :
          g[s].op = "Put" /\ g[s].err = "noFreeID"
          => g[s].pc = "ret" /\ g[s].id = 0 /\ g[s].f = 0 /\ ~g[s].mine)

\* A Put has come back with the error of createID while every id was in use.
C37_Witness ==
  /\ Indexed = Ids
  /\ \E s \in Slots : g[s].op = "Put" /\ g[s].pc = "ret" /\ g[s].err = "noFreeID"

\* C38: a Store.Put that returns, with or without an error, has closed the
\* pipe end it read from and the blob file it created.
C38_PutReturnsClosed ==
  \A s \in Slots :
    g[s].op = "Put" /\ g[s].pc = "ret" => g[s].src = 0 /\ g[s].f = 0

\* The system calls of the privilege drop in the order they are to be made.
DropOrder == <<"chroot", "chdir", "setgroups", "setresgid", "setresuid">>

IsPrefix(p, q) == Len(p) <= Len(q) /\ SubSeq(q, 1, Len(p)) = p

\* C39: the system calls a child has made to drop its privileges are the
\* first ones of chroot, chdir, setgroups, setresgid, setresuid, in this
\* order; the one that failed is the next of them and the child has made none
\* after it; the uid is given up only after the groups and the gid.
C39_DropInOrder ==
  \A c \in Range(Children) :
    LET kid == proc.kid[c] IN
      /\ IsPrefix(kid.sys, DropOrder)
      /\ kid.failed \in Range(DropOrder)
           => IsPrefix(Append(kid.sys, kid.failed), DropOrder) /\ kid.state = "exited"
      /\ kid.dropped => {"setgroups", "setresgid"} \subseteq Range(kid.sys)
      /\ kid.serving => kid.sys = DropOrder

\* A child whose setresgid has failed: it has made the three calls before it
\* and has not changed its uid.
C39_Witness ==
  /\ proc.kid["webserver"].failed = "setresgid"
  /\ proc.kid["webserver"].sys = <<"chroot", "chdir", "setgroups">>
  /\ ~proc.kid["webserver"].dropped
  /\ proc.kid["store"].dropped

\* C40: a Put of the server takes a descriptor from a message of the FD
\* socket only if the message has exactly one control message with exactly
\* one descriptor, and once a Put has failed on another message no Put reads
\* from the FD socket again.
C40_OneDescriptorOrTornDown ==
  [][\A s \in Slots :
       SrvRecvFd(s)
       => /\ g'[s].src # 0 => Head(fdSrv) = UnixRights(g'[s].src)
          /\ \A t \in Slots : g[t].err # "wrongLength"]_vars

====
